---- MODULE Spec2Model ----
(***************************************************************************)
(* Pipeline orchestrator, approval gate and deployment stages of devai.    *)
(* One run of FullCICDPipeline.run is modelled as a sequential process;    *)
(* every action is the code executed when one awaited call returns, up to  *)
(* the point where the next call is awaited.                               *)
(***************************************************************************)
EXTENDS Integers, Sequences, FiniteSets, TLC

\* ---------------------------------------------------------------- bounds
\* longest deploy_to list given to a run
MaxTargets == 1
\* longest deploy_to list given to a run that starts at the deployment loop
MaxDeployTargets == 2
\* calls made directly on one CICDAgent
MaxAgentCalls == 1
\* calls of request_approval, approve and reject made on one ApprovalGate
MaxGateCalls == 4
\* calls of require_dual_approval made on one ApprovalGate
MaxDualCalls == 1
\* how often the second prod approver may repeat an inadmissible identity
MaxReprompts == 1
\* longest timeout, in seconds, a Jenkins build is waited for
MaxTimeout == 2
\* runs that use one approvals.json at the same time
MaxRuns == 2

\* ---------------------------------------------------------------- values
TaskTypes == {"feature", "bugfix", "refactor", "custom"}

\* the values of Environment
Environment == {"dev", "staging", "prod"}

\* names a caller may put into deploy_to
EnvNames == {"dev", "staging", "prod", "DEV", "qa"}

\* str.lower() on the names above
Lower(name) == IF name = "DEV" THEN "dev" ELSE name

\* identities typed in at the "Enter your username/email" prompt
Identities == {"user", "alice", ""}

\* outcomes of one BaseAgent.run
AgentOutcomes == {"ok", "fail", "raise"}

\* outcomes of the approval store while a checkpoint runs: no failure, or
\* the file operation of the request / of the status update raising
\* PermissionError (EACCES) or another OSError
GateFaults == {"none", "request:PermissionError", "request:OSError",
               "update:PermissionError", "update:OSError"}

\* words a collaborator output may contain
Tokens == {"**block**", "Decision: BLOCK", "**WARN**", "decision: warn",
           "**Approve**", "DECISION: APPROVE", "critical", "High", "medium"}

\* str.upper() on the words above
Upper(t) ==
    CASE t = "**block**"         -> "**BLOCK**"
      [] t = "Decision: BLOCK"   -> "DECISION: BLOCK"
      [] t = "**WARN**"          -> "**WARN**"
      [] t = "decision: warn"    -> "DECISION: WARN"
      [] t = "**Approve**"       -> "**APPROVE**"
      [] t = "DECISION: APPROVE" -> "DECISION: APPROVE"
      [] t = "critical"          -> "CRITICAL"
      [] t = "High"              -> "HIGH"
      [] OTHER                   -> "MEDIUM"

\* outputs of the security collaborator tried in a pipeline run
ScanOutputs == { {"**block**", "critical"},
                 {"Decision: BLOCK"},
                 {"**block**", "**Approve**", "High"},
                 {"decision: warn", "medium"},
                 {"DECISION: APPROVE"},
                 {"medium"} }

NoAgentResult == [task_id |-> "None", content |-> {}, success |-> FALSE,
                  error |-> "None"]

NoError == [prefix |-> "None", detail |-> <<>>]

Err(prefix, detail) == [prefix |-> prefix, detail |-> detail]

EmptyMap == [k \in {} |-> TRUE]

Put(map, key, val) ==
    [k \in (DOMAIN map) \cup {key} |-> IF k = key THEN val ELSE map[k]]

\* ------------------------------------------------------------ parse_decision
\* parse_decision approving an output without a decision marker
parse_decision_DefaultApprove(res) ==
    LET content == {Upper(t) : t \in res.content} IN
    IF "**BLOCK**" \in content \/ "DECISION: BLOCK" \in content
    THEN [decision |-> "BLOCK",
          blockers |->
            (IF "CRITICAL" \in content
             THEN <<"Critical severity findings detected">> ELSE <<>>)
            \o
            (IF "HIGH" \in content
             THEN <<"High severity findings detected">> ELSE <<>>)]
    ELSE IF "**WARN**" \in content \/ "DECISION: WARN" \in content
    THEN [decision |-> "WARN", blockers |-> <<>>]
    ELSE [decision |-> "APPROVE", blockers |-> <<>>]

\* parse_decision listing the severities found with a WARN too
parse_decision_WarnListsSeverity(res) ==
    LET content == {Upper(t) : t \in res.content}
        found == (IF "CRITICAL" \in content
                  THEN <<"Critical severity findings detected">> ELSE <<>>)
                 \o
                 (IF "HIGH" \in content
                  THEN <<"High severity findings detected">> ELSE <<>>)
    IN
    IF "**BLOCK**" \in content \/ "DECISION: BLOCK" \in content
    THEN [decision |-> "BLOCK", blockers |-> found]
    ELSE IF "**WARN**" \in content \/ "DECISION: WARN" \in content
    THEN [decision |-> "WARN", blockers |-> found]
    ELSE IF "**APPROVE**" \in content \/ "DECISION: APPROVE" \in content
    THEN [decision |-> "APPROVE", blockers |-> <<>>]
    ELSE [decision |-> "WARN",
          blockers |->
            <<"Unable to determine security status - manual review required">>]

\* parse_decision looking for the APPROVE markers first
parse_decision_ApproveFirst(res) ==
    LET content == {Upper(t) : t \in res.content} IN
    IF "**APPROVE**" \in content \/ "DECISION: APPROVE" \in content
    THEN [decision |-> "APPROVE", blockers |-> <<>>]
    ELSE IF "**BLOCK**" \in content \/ "DECISION: BLOCK" \in content
    THEN [decision |-> "BLOCK",
          blockers |->
            (IF "CRITICAL" \in content
             THEN <<"Critical severity findings detected">> ELSE <<>>)
            \o
            (IF "HIGH" \in content
             THEN <<"High severity findings detected">> ELSE <<>>)]
    ELSE IF "**WARN**" \in content \/ "DECISION: WARN" \in content
    THEN [decision |-> "WARN", blockers |-> <<>>]
    ELSE [decision |-> "WARN",
          blockers |->
            <<"Unable to determine security status - manual review required">>]

parse_decision(res) ==
    LET content == {Upper(t) : t \in res.content} IN
    IF "**BLOCK**" \in content \/ "DECISION: BLOCK" \in content
    THEN [decision |-> "BLOCK",
          blockers |->
            (IF "CRITICAL" \in content
             THEN <<"Critical severity findings detected">> ELSE <<>>)
            \o
            (IF "HIGH" \in content
             THEN <<"High severity findings detected">> ELSE <<>>)]
    ELSE IF "**WARN**" \in content \/ "DECISION: WARN" \in content
    THEN [decision |-> "WARN", blockers |-> <<>>]
    ELSE IF "**APPROVE**" \in content \/ "DECISION: APPROVE" \in content
    THEN [decision |-> "APPROVE", blockers |-> <<>>]
    ELSE [decision |-> "WARN",
          blockers |->
            <<"Unable to determine security status - manual review required">>]

\* ------------------------------------------------------------ BaseAgent.run
\* one line of audit.jsonl
AuditEntry(event, name, task_id, environment, approved_by, status) ==
    [event |-> event, agent |-> name, task_id |-> task_id,
     environment |-> environment, approved_by |-> approved_by,
     status |-> status]

\* the entries of log_agent_start / log_agent_complete
AgentEvent(event, name, task_id) ==
    AuditEntry(event, name, task_id, "None", <<>>, "None")

\* BaseAgent_run without the call of log_agent_complete
BaseAgent_run_NoCompleteLog(name, task_id, outcome, content) ==
    CASE outcome = "ok" ->
           [raised |-> FALSE,
            result |-> [task_id |-> task_id, content |-> content,
                        success |-> TRUE, error |-> "None"],
            log    |-> << AgentEvent("agent_start", name, task_id) >>]
      [] outcome = "fail" ->
           [raised |-> FALSE,
            result |-> [task_id |-> task_id, content |-> {},
                        success |-> FALSE, error |-> "agent error"],
            log    |-> << AgentEvent("agent_start", name, task_id) >>]
      [] OTHER ->
           [raised |-> TRUE, result |-> NoAgentResult, log |-> <<>>]

\* One call of BaseAgent.run: "ok" logs start and completion and returns a
\* successful result, "fail" is the SDK call failing inside the try block
\* (start logged, success=False returned), "raise" is an exception leaving
\* the agent before anything is logged.
BaseAgent_run(name, task_id, outcome, content) ==
    CASE outcome = "ok" ->
           [raised |-> FALSE,
            result |-> [task_id |-> task_id, content |-> content,
                        success |-> TRUE, error |-> "None"],
            log    |-> << AgentEvent("agent_start", name, task_id),
                          AgentEvent("agent_complete", name, task_id) >>]
      [] outcome = "fail" ->
           [raised |-> FALSE,
            result |-> [task_id |-> task_id, content |-> {},
                        success |-> FALSE, error |-> "agent error"],
            log    |-> << AgentEvent("agent_start", name, task_id) >>]
      [] OTHER ->
           [raised |-> TRUE, result |-> NoAgentResult, log |-> <<>>]

\* ------------------------------------------------------------ ApprovalGate
\* The approval store (approvals.json) is a sequence of ApprovalRequest
\* records; a request id is the position of its record.
ApprovalRequest(id, agent, action) ==
    [request_id |-> id, agent |-> agent, action |-> action,
     status |-> "pending", approver |-> "None", comments |-> "None"]

NoRequest == ApprovalRequest(0, "None", "None")

request_approval(store, agent, action) ==
    LET request == ApprovalRequest(Len(store) + 1, agent, action) IN
    [store |-> Append(store, request), request |-> request]

\* _update_status leaving a request that is already resolved as it is
_update_status_OneShot(store, request_id, status, approver, comments) ==
    IF request_id \notin DOMAIN store
    THEN [raised |-> "ValueError", store |-> store, request |-> NoRequest]
    ELSE IF store[request_id].status # "pending"
    THEN [raised |-> "none", store |-> store, request |-> store[request_id]]
    ELSE LET updated == [store[request_id] EXCEPT !.status = status,
                                                  !.approver = approver,
                                                  !.comments = comments] IN
         [raised |-> "none",
          store |-> [store EXCEPT ![request_id] = updated],
          request |-> updated]

\* _update_status creating the record of an id it does not find
_update_status_CreatesMissing(store, request_id, status, approver, comments) ==
    LET found == IF request_id \in DOMAIN store THEN store
                 ELSE Append(store, ApprovalRequest(Len(store) + 1, "None",
                                                    "None"))
        id == IF request_id \in DOMAIN store THEN request_id
              ELSE Len(store) + 1
        updated == [found[id] EXCEPT !.status = status,
                                     !.approver = approver,
                                     !.comments = comments]
    IN [raised |-> "none",
        store |-> [found EXCEPT ![id] = updated],
        request |-> updated]

_update_status(store, request_id, status, approver, comments) ==
    IF request_id \notin DOMAIN store
    THEN [raised |-> "ValueError", store |-> store, request |-> NoRequest]
    ELSE LET updated == [store[request_id] EXCEPT !.status = status,
                                                  !.approver = approver,
                                                  !.comments = comments] IN
         [raised |-> "none",
          store |-> [store EXCEPT ![request_id] = updated],
          request |-> updated]

approve(store, request_id, approver, comments) ==
    _update_status(store, request_id, "approved", approver, comments)

reject(store, request_id, approver, comments) ==
    _update_status(store, request_id, "rejected", approver, comments)

\* the exception class named by a store fault
FaultClass(fault) ==
    IF fault \in {"request:PermissionError", "update:PermissionError"}
    THEN "PermissionError" ELSE "OSError"

Raise(store, class, msg) ==
    [raised |-> class, msg |-> msg, store |-> store, request |-> NoRequest]

\* require_approval with auto_prompt: create the request, prompt, then
\* approve or reject as "user"; a rejection raises PermissionError.
require_approval(store, agent, action, approved, comments, fault) ==
    IF fault \in {"request:PermissionError", "request:OSError"}
    THEN Raise(store, FaultClass(fault), <<"Errno", "approvals.json">>)
    ELSE
    LET created == request_approval(store, agent, action) IN
    IF fault \in {"update:PermissionError", "update:OSError"}
    THEN Raise(created.store, FaultClass(fault), <<"Errno", "approvals.json">>)
    ELSE IF approved
    THEN LET done == approve(created.store, created.request.request_id,
                             "user", comments) IN
         [raised |-> "none", msg |-> <<>>, store |-> done.store,
          request |-> done.request]
    ELSE LET done == reject(created.store, created.request.request_id,
                            "user", comments) IN
         Raise(done.store, "PermissionError", <<"Approval rejected", comments>>)

\* dual_first raising for a negative first decision without storing it
dual_first_RejectionNotStored(store, agent, action, approved1, comments1, fault) ==
    IF fault \in {"request:PermissionError", "request:OSError"}
    THEN Raise(store, FaultClass(fault), <<"Errno", "approvals.json">>)
    ELSE
    LET created == request_approval(store, agent, action) IN
    IF fault \in {"update:PermissionError", "update:OSError"}
    THEN Raise(created.store, FaultClass(fault), <<"Errno", "approvals.json">>)
    ELSE IF ~approved1
    THEN Raise(created.store, "PermissionError",
               <<"First approval rejected", comments1>>)
    ELSE LET done == approve(created.store, created.request.request_id,
                             "user", comments1) IN
         [raised |-> "none", msg |-> <<>>, store |-> done.store,
          request |-> done.request]

\* require_dual_approval up to the first decision
dual_first(store, agent, action, approved1, comments1, fault) ==
    IF fault \in {"request:PermissionError", "request:OSError"}
    THEN Raise(store, FaultClass(fault), <<"Errno", "approvals.json">>)
    ELSE
    LET created == request_approval(store, agent, action) IN
    IF fault \in {"update:PermissionError", "update:OSError"}
    THEN Raise(created.store, FaultClass(fault), <<"Errno", "approvals.json">>)
    ELSE IF ~approved1
    THEN LET done == reject(created.store, created.request.request_id,
                            "user", comments1) IN
         Raise(done.store, "PermissionError",
               <<"First approval rejected", comments1>>)
    ELSE LET done == approve(created.store, created.request.request_id,
                             "user", comments1) IN
         [raised |-> "none", msg |-> <<>>, store |-> done.store,
          request |-> done.request]

\* dual_second without the check against authorized_approvers
dual_second_NoAllowList(store, agent, action, first_approver, authorized_approvers, approved2, comments2, second_approver, fault) ==
    IF fault \in {"request:PermissionError", "request:OSError"}
    THEN Raise(store, FaultClass(fault), <<"Errno", "approvals.json">>)
    ELSE
    LET created == request_approval(store, agent, action) IN
    IF ~approved2
    THEN IF fault \in {"update:PermissionError", "update:OSError"}
         THEN Raise(created.store, FaultClass(fault),
                    <<"Errno", "approvals.json">>)
         ELSE LET done == reject(created.store, created.request.request_id,
                                 "user", comments2) IN
              Raise(done.store, "PermissionError",
                    <<"Second approval rejected", comments2>>)
    ELSE IF second_approver = first_approver
    THEN Raise(created.store, "continue", <<>>)
    ELSE IF fault \in {"update:PermissionError", "update:OSError"}
    THEN Raise(created.store, FaultClass(fault), <<"Errno", "approvals.json">>)
    ELSE LET done == approve(created.store, created.request.request_id,
                             second_approver, comments2) IN
         [raised |-> "none", msg |-> <<>>, store |-> done.store,
          request |-> done.request]

\* One pass of the "while True" loop of require_dual_approval; raised is
\* "continue" when the loop starts over.  authorized_approvers is a set of
\* identities, empty when none is given.
dual_second(store, agent, action, first_approver, authorized_approvers, approved2, comments2, second_approver, fault) ==
    IF fault \in {"request:PermissionError", "request:OSError"}
    THEN Raise(store, FaultClass(fault), <<"Errno", "approvals.json">>)
    ELSE
    LET created == request_approval(store, agent, action) IN
    IF ~approved2
    THEN IF fault \in {"update:PermissionError", "update:OSError"}
         THEN Raise(created.store, FaultClass(fault),
                    <<"Errno", "approvals.json">>)
         ELSE LET done == reject(created.store, created.request.request_id,
                                 "user", comments2) IN
              Raise(done.store, "PermissionError",
                    <<"Second approval rejected", comments2>>)
    ELSE IF second_approver = first_approver
    THEN Raise(created.store, "continue", <<>>)
    ELSE IF authorized_approvers # {}
            /\ second_approver \notin authorized_approvers
    THEN Raise(created.store, "continue", <<>>)
    ELSE IF fault \in {"update:PermissionError", "update:OSError"}
    THEN Raise(created.store, FaultClass(fault), <<"Errno", "approvals.json">>)
    ELSE LET done == approve(created.store, created.request.request_id,
                             second_approver, comments2) IN
         [raised |-> "none", msg |-> <<>>, store |-> done.store,
          request |-> done.request]

\* ------------------------------------------------------------ CICDAgent
\* the final status of a build that completed without success
FailingStatus == {"FAILURE", "UNSTABLE", "ABORTED"}

\* the loop of trigger_and_wait that raised TimeoutError
WaitTimeouts == {"start_timeout", "complete_timeout"}

BuildOutcomes == {"SUCCESS"} \cup FailingStatus \cup WaitTimeouts \cup {"raise"}

\* str(e) of the TimeoutError of wait_for_build_start and of wait_for_build
TimeoutText(outcome) ==
    IF outcome = "start_timeout"
    THEN "Build did not start within <timeout> seconds"
    ELSE "Build did not complete within <timeout> seconds"

\* f"Build {status_str}"
StatusText(status) ==
    CASE status = "FAILURE"  -> "Build FAILURE"
      [] status = "UNSTABLE" -> "Build UNSTABLE"
      [] status = "ABORTED"  -> "Build ABORTED"

FailedResult(task_id, error) ==
    [task_id |-> task_id, content |-> {}, success |-> FALSE, error |-> error]

\* trigger_build reporting a timeout of the wait as a build that failed
CICDAgent_trigger_build_TimeoutAsFailure(task_id, outcome) ==
    CASE outcome \in {"SUCCESS"} \cup FailingStatus ->
           [raised |-> FALSE,
            result |-> [task_id |-> task_id,
                        content |-> {"Build Number:", outcome},
                        success |-> (outcome = "SUCCESS"),
                        error |-> IF outcome = "SUCCESS" THEN "None"
                                  ELSE StatusText(outcome)],
            log |-> << AuditEntry("build_trigger", "cicd", task_id, "None",
                                  <<>>, "None") >>]
      [] outcome \in WaitTimeouts ->
           [raised |-> FALSE,
            result |-> FailedResult(task_id, StatusText("FAILURE")),
            log |-> <<>>]
      [] OTHER ->
           [raised |-> TRUE, result |-> NoAgentResult, log |-> <<>>]

\* trigger_build: "SUCCESS" and the members of FailingStatus are the final
\* status of the build, a member of WaitTimeouts is trigger_and_wait raising
\* TimeoutError inside the try block, "raise" is the client configuration
\* failing before the try block.
CICDAgent_trigger_build(task_id, outcome) ==
    CASE outcome \in {"SUCCESS"} \cup FailingStatus ->
           [raised |-> FALSE,
            result |-> [task_id |-> task_id,
                        content |-> {"Build Number:", outcome},
                        success |-> (outcome = "SUCCESS"),
                        error |-> IF outcome = "SUCCESS" THEN "None"
                                  ELSE StatusText(outcome)],
            log |-> << AuditEntry("build_trigger", "cicd", task_id, "None",
                                  <<>>, "None") >>]
      [] outcome \in WaitTimeouts ->
           [raised |-> FALSE,
            result |-> FailedResult(task_id, TimeoutText(outcome)),
            log |-> <<>>]
      [] OTHER ->
           [raised |-> TRUE, result |-> NoAgentResult, log |-> <<>>]

\* upload_artifact: "ok" uploads and logs, "fail" is the upload raising
\* inside the try block, "raise" the client configuration failing before it.
CICDAgent_upload_artifact(task_id, outcome) ==
    CASE outcome = "ok" ->
           [raised |-> FALSE,
            result |-> [task_id |-> task_id, content |-> {"SHA-256:"},
                        success |-> TRUE, error |-> "None"],
            log |-> << AuditEntry("artifact_upload", "cicd", task_id, "None",
                                  <<>>, "None") >>]
      [] outcome = "fail" ->
           [raised |-> FALSE,
            result |-> FailedResult(task_id, "ArtifactoryError"),
            log |-> <<>>]
      [] OTHER ->
           [raised |-> TRUE, result |-> NoAgentResult, log |-> <<>>]

\* the set of the elements of a list
Range(seq) == {seq[i] : i \in DOMAIN seq}

\* CICDAgent_deploy without the check that the prod approvers differ
CICDAgent_deploy_NoDistinctCheck(environment, task_id, approved_by, outcome) ==
    IF environment = "staging" /\ Len(approved_by) < 1
    THEN [result |-> FailedResult(task_id,
                       "Staging deployment requires at least one approval"),
          log |-> <<>>, performed |-> FALSE]
    ELSE IF environment = "prod" /\ Len(approved_by) < 2
    THEN [result |-> FailedResult(task_id,
                       "Production deployment requires dual approval"),
          log |-> <<>>, performed |-> FALSE]
    ELSE
    LET r == BaseAgent_run("cicd", task_id, outcome, {"deployed"}) IN
    IF r.raised
    THEN [result |-> FailedResult(task_id, "exception"),
          log |-> << AuditEntry("deployment", "cicd", task_id, environment,
                                approved_by, "failed") >>,
          performed |-> TRUE]
    ELSE [result |-> r.result,
          log |-> r.log \o
                  << AuditEntry("deployment", "cicd", task_id, environment,
                                approved_by,
                                IF r.result.success THEN "success"
                                ELSE "failed") >>,
          performed |-> TRUE]

\* deploy: validate the approver list, run the agent, log the deployment.
\* performed tells whether the deployment task was handed to the agent.
CICDAgent_deploy(environment, task_id, approved_by, outcome) ==
    IF environment = "staging" /\ Len(approved_by) < 1
    THEN [result |-> FailedResult(task_id,
                       "Staging deployment requires at least one approval"),
          log |-> <<>>, performed |-> FALSE]
    ELSE IF environment = "prod" /\ Len(approved_by) < 2
    THEN [result |-> FailedResult(task_id,
                       "Production deployment requires dual approval"),
          log |-> <<>>, performed |-> FALSE]
    ELSE IF environment = "prod" /\ Cardinality(Range(approved_by)) < 2
    THEN [result |-> FailedResult(task_id,
                       "Production deployment requires two DIFFERENT approvers"),
          log |-> <<>>, performed |-> FALSE]
    ELSE
    LET r == BaseAgent_run("cicd", task_id, outcome, {"deployed"}) IN
    IF r.raised
    THEN [result |-> FailedResult(task_id, "exception"),
          log |-> << AuditEntry("deployment", "cicd", task_id, environment,
                                approved_by, "failed") >>,
          performed |-> TRUE]
    ELSE [result |-> r.result,
          log |-> r.log \o
                  << AuditEntry("deployment", "cicd", task_id, environment,
                                approved_by,
                                IF r.result.success THEN "success"
                                ELSE "failed") >>,
          performed |-> TRUE]

\* what self.run may do inside rollback: the outcomes of BaseAgent.run, with
\* "raise_started" for an exception that leaves run after log_agent_start
\* (get_task reading a corrupt task file)
RollbackOutcomes == AgentOutcomes \cup {"raise_started"}

\* rollback: run the agent on the rollback task, then log the rollback; an
\* exception of the run is turned into a failed result.  approved_by is one
\* identity (a str), kept in the entry as a list of one.
CICDAgent_rollback(environment, task_id, approved_by, outcome) ==
    LET r == BaseAgent_run("cicd", task_id, outcome, {"rolled back"}) IN
    IF r.raised
    THEN [result |-> FailedResult(task_id, "exception"),
          log |-> IF outcome = "raise_started"
                  THEN << AgentEvent("agent_start", "cicd", task_id) >>
                  ELSE <<>>,
          performed |-> TRUE]
    ELSE [result |-> r.result,
          log |-> r.log \o
                  << AuditEntry("rollback", "cicd", task_id, environment,
                                <<approved_by>>, "None") >>,
          performed |-> TRUE]

\* ------------------------------------------------------------ state
VARIABLES
    pc,                \* position of the run
    task_type, skip_design, require_approvals,
    deploy_to,         \* list of environment names
    jenkins_job,       \* TRUE when a job name is given
    artifact_path,     \* TRUE when an artifact path is given
    result,            \* the PipelineResult
    approved_design,   \* local of DevTestCyberPipeline.run
    approvals_file,    \* content of approvals.json
    audit,             \* content of audit.jsonl
    calls,             \* collaborator invocations made so far, in order
    env_idx,           \* position of the deployment loop in deploy_to
    approvers,         \* approver list resolved for the current environment
    request1,          \* first request of require_dual_approval
    first_person,      \* who answered the first prompt of require_dual_approval
    reprompts,         \* second-approval prompts that were started over
    api_call,          \* the last call made on a gate or an agent directly
    jenkins,           \* the trigger_and_wait call of a JenkinsClient
    gates              \* the ApprovalGate operation of each concurrent run

inputs == <<task_type, skip_design, require_approvals, deploy_to,
            jenkins_job, artifact_path>>

vars == <<pc, task_type, skip_design, require_approvals, deploy_to,
          jenkins_job, artifact_path, result, approved_design,
          approvals_file, audit, calls, env_idx, approvers, request1,
          first_person, reprompts, api_call, jenkins, gates>>

Comments == {"lgtm"}

NoDesign == [given |-> FALSE, content |-> {}]

\* what a collaborator call did, as its caller sees it
Returned(r) ==
    IF r.raised THEN "raised"
    ELSE IF r.result.success THEN "ok" ELSE "failed"

\* one collaborator invocation with its arguments and what it did
Call(collaborator, design, environment, approved_by, returned) ==
    [collaborator |-> collaborator, approved_design |-> design,
     environment |-> environment, approved_by |-> approved_by,
     returned |-> returned]

AgentCall(collaborator, r) ==
    Call(collaborator, NoDesign, "None", <<>>, Returned(r))

DeployLists == UNION {[1..n -> EnvNames] : n \in 0..MaxTargets}

\* A call made directly on an ApprovalGate or a CICDAgent: its arguments,
\* the answers given at its last prompt, and what it did.  seq counts the
\* calls, found is the status the addressed request had when the call was
\* made, raised is the exception class or "none", performed tells whether
\* a deployment task was handed to the agent.
NoCall ==
    [seq |-> 0, op |-> "None", request_id |-> 0, approver |-> "None",
     comments |-> "None", found |-> "None",
     environment |-> "None", approved_by |-> <<>>,
     authorized_approvers |-> {}, approved |-> FALSE, fault |-> "none",
     raised |-> "none", msg |-> <<>>, performed |-> FALSE, success |-> FALSE]

\* A call of JenkinsClient.trigger_and_wait: the timeout the call waits with
\* (its argument, or config.timeout_seconds), config.poll_interval_seconds,
\* the loop clock (now, and start_time of the running loop), the time of
\* the call (called), and the status of the JenkinsBuildInfo it returned.
NoWait ==
    [timeout |-> 0, poll_interval_seconds |-> 0, called |-> 0, now |-> 0,
     start_time |-> 0, status |-> "None"]

PipelineResult ==
    [stage |-> "design",
     design_result |-> NoAgentResult, dev_result |-> NoAgentResult,
     test_result |-> NoAgentResult, cyber_result |-> NoAgentResult,
     security_decision |-> "None", security_blockers |-> <<>>,
     approvals |-> <<>>, success |-> TRUE, error |-> NoError,
     cicd_result |-> NoAgentResult, build_number |-> 0,
     artifact_version |-> "None", artifact_sha256 |-> "None",
     deployment_results |-> EmptyMap]

Init ==
    /\ pc = "start"
    /\ task_type \in TaskTypes
    /\ skip_design \in BOOLEAN
    /\ require_approvals \in BOOLEAN
    /\ deploy_to \in DeployLists
    /\ jenkins_job \in BOOLEAN
    /\ artifact_path \in BOOLEAN
    /\ result = PipelineResult
    /\ approved_design = NoDesign
    /\ approvals_file = <<>>
    /\ audit = <<>>
    /\ calls = <<>>
    /\ env_idx = 0
    /\ approvers = <<>>
    /\ request1 = NoRequest
    /\ first_person = "None"
    /\ reprompts = 0
    /\ api_call = NoCall
    /\ jenkins = NoWait
    /\ gates = <<>>

\* ------------------------------------------------------------ control flow
\* Failed leaving the error field as it is
Failed_KeepsError(res, stage, prefix, detail) ==
    [res EXCEPT !.stage = stage, !.success = FALSE]

\* Failed leaving the success flag as it is
Failed_KeepsSuccess(res, stage, prefix, detail) ==
    [res EXCEPT !.stage = stage,
                !.error = Err(prefix, detail)]

Failed(res, stage, prefix, detail) ==
    [res EXCEPT !.stage = stage, !.success = FALSE,
                !.error = Err(prefix, detail)]

AtStage(res, stage) == [res EXCEPT !.stage = stage]

Cont(p, res, i, a) ==
    [pc |-> p, result |-> res, env_idx |-> i, approvers |-> a]

Goto(k) ==
    /\ pc' = k.pc
    /\ result' = k.result
    /\ env_idx' = k.env_idx
    /\ approvers' = k.approvers

\* return result
Return(res) == Cont("done", res, env_idx, approvers)

\* an exception that no handler of the run catches
Uncaught(res) == Cont("crashed", res, env_idx, approvers)

\* EnterEnv passing no placeholder approver to an auto-approved staging
\* deployment
EnterEnv_NoPlaceholder(res, i) ==
    IF i > Len(deploy_to)
    THEN Cont("done", [res EXCEPT !.stage = "complete", !.success = TRUE],
              i, <<>>)
    ELSE
    LET env == Lower(deploy_to[i]) IN
    IF env \notin Environment
    THEN Cont("crashed", res, i, <<>>)
    ELSE IF env = "dev"
    THEN Cont("deploy_dev", AtStage(res, "deploy_dev"), i, <<>>)
    ELSE IF env = "staging"
    THEN IF require_approvals
         THEN Cont("deploy_staging_approval",
                   AtStage(res, "deploy_staging_approval"), i, <<>>)
         ELSE Cont("deploy_staging", AtStage(res, "deploy_staging"), i, <<>>)
    ELSE IF require_approvals
         THEN Cont("deploy_prod_approval",
                   AtStage(res, "deploy_prod_approval"), i, <<>>)
         ELSE Cont("deploy_prod", AtStage(res, "deploy_prod"), i,
                   <<"auto-approved-1", "auto-approved-2">>)

\* head of "for env_name in deploy_to" for the i-th name, up to the next
\* awaited call; past the end of the list the run completes
EnterEnv(res, i) ==
    IF i > Len(deploy_to)
    THEN Cont("done", [res EXCEPT !.stage = "complete", !.success = TRUE],
              i, <<>>)
    ELSE
    LET env == Lower(deploy_to[i]) IN
    IF env \notin Environment
    THEN Cont("crashed", res, i, <<>>)
    ELSE IF env = "dev"
    THEN Cont("deploy_dev", AtStage(res, "deploy_dev"), i, <<>>)
    ELSE IF env = "staging"
    THEN IF require_approvals
         THEN Cont("deploy_staging_approval",
                   AtStage(res, "deploy_staging_approval"), i, <<>>)
         ELSE Cont("deploy_staging", AtStage(res, "deploy_staging"), i,
                   <<"auto-approved">>)
    ELSE IF require_approvals
         THEN Cont("deploy_prod_approval",
                   AtStage(res, "deploy_prod_approval"), i, <<>>)
         ELSE Cont("deploy_prod", AtStage(res, "deploy_prod"), i,
                   <<"auto-approved-1", "auto-approved-2">>)

\* _run_cicd_stages from the artifact upload on
EnterUpload(res) ==
    IF artifact_path
    THEN Cont("artifact_upload", AtStage(res, "artifact_upload"), 0, <<>>)
    ELSE EnterEnv(res, 1)

\* _run_cicd_stages from its beginning
_run_cicd_stages(res) ==
    IF jenkins_job
    THEN Cont("build", AtStage(res, "build"), 0, <<>>)
    ELSE EnterUpload(res)

\* FullCICDPipeline_run without the early return on a failed parent run
FullCICDPipeline_run_NoEarlyReturn(res) ==
    IF deploy_to # <<>> THEN _run_cicd_stages(res) ELSE Return(res)

\* FullCICDPipeline.run once super().run() has returned res
FullCICDPipeline_run(res) ==
    IF ~res.success THEN Return(res)
    ELSE IF deploy_to # <<>> THEN _run_cicd_stages(res)
    ELSE Return(res)

\* end of DevTestCyberPipeline.run
Complete(res) ==
    FullCICDPipeline_run([res EXCEPT !.stage = "complete", !.success = TRUE])

\* BaseStage without the "if not ....success" branch
BaseStage_NoSuccessCheck(r, before, after, error_prefix, failed_prefix, next) ==
    IF r.raised
    THEN FullCICDPipeline_run(Failed(before, "failed", error_prefix,
                                     <<"exception">>))
    ELSE next

\* The try block around a collaborator call in DevTestCyberPipeline.run:
\* r is what the call did, before/after the result without/with its outcome
\* recorded, next the continuation when the call succeeded.
BaseStage(r, before, after, error_prefix, failed_prefix, next) ==
    IF r.raised
    THEN FullCICDPipeline_run(Failed(before, "failed", error_prefix,
                                     <<"exception">>))
    ELSE IF ~r.result.success
    THEN FullCICDPipeline_run(Failed(after, "failed", failed_prefix,
                                     <<r.result.error>>))
    ELSE next

\* CicdStage without the "if not ....success" branch
CicdStage_NoSuccessCheck(r, before, after, error_prefix, failed_prefix, next) ==
    IF r.raised
    THEN Return(Failed(before, "failed", error_prefix, <<"exception">>))
    ELSE next

\* The same try block in _run_cicd_stages (build, artifact upload)
CicdStage(r, before, after, error_prefix, failed_prefix, next) ==
    IF r.raised
    THEN Return(Failed(before, "failed", error_prefix, <<"exception">>))
    ELSE IF ~r.result.success
    THEN Return(Failed(after, "failed", failed_prefix, <<r.result.error>>))
    ELSE next

\* Checkpoint with a handler that swallows the rejection
Checkpoint_SwallowsRejection(g, on_approved, on_rejected) ==
    IF g.raised \in {"none", "PermissionError"} THEN on_approved
    ELSE Uncaught(result)

\* The try block around require_approval / require_dual_approval: g is what
\* the call did, on_approved and on_rejected the continuations of the normal
\* path and of the "except PermissionError" handler.
Checkpoint(g, on_approved, on_rejected) ==
    IF g.raised = "none" THEN on_approved
    ELSE IF g.raised = "PermissionError" THEN on_rejected
    ELSE Uncaught(result)

\* SecurityGate asking for the review of a WARN in auto-approve mode too
SecurityGate_WarnAlwaysReviewed(gate) ==
    IF gate.security_decision = "BLOCK"
    THEN FullCICDPipeline_run(Failed(gate, "blocked", "Security gate blocked",
                                     gate.security_blockers))
    ELSE IF gate.security_decision = "WARN"
    THEN Cont("cyber_approval", gate, env_idx, approvers)
    ELSE Complete(gate)

\* SecurityGate sending a BLOCK to the human review of a WARN
SecurityGate_BlockReviewed(gate) ==
    IF gate.security_decision \in {"BLOCK", "WARN"}
    THEN IF require_approvals
         THEN Cont("cyber_approval", gate, env_idx, approvers)
         ELSE Complete(gate)
    ELSE Complete(gate)

\* Stage 8, the branch on the security decision
SecurityGate(gate) ==
    IF gate.security_decision = "BLOCK"
    THEN FullCICDPipeline_run(Failed(gate, "blocked", "Security gate blocked",
                                     gate.security_blockers))
    ELSE IF gate.security_decision = "WARN"
    THEN IF require_approvals
         THEN Cont("cyber_approval", gate, env_idx, approvers)
         ELSE Complete(gate)
    ELSE Complete(gate)

\* ------------------------------------------------------------ the run
\* Start with the design stage chosen by task_type alone
Start_IgnoresSkipDesign ==
    /\ pc = "start"
    /\ IF task_type = "feature"
       THEN Goto(Cont("design", result, env_idx, approvers))
       ELSE Goto(Cont("dev", AtStage(result, "dev"), env_idx, approvers))
    /\ UNCHANGED <<inputs, api_call, approved_design, approvals_file, audit,
                   calls, request1, first_person, reprompts, jenkins, gates>>

\* DevTestCyberPipeline.run up to the first awaited call
Start ==
    /\ pc = "start"
    /\ IF task_type = "feature" /\ ~skip_design
       THEN Goto(Cont("design", result, env_idx, approvers))
       ELSE Goto(Cont("dev", AtStage(result, "dev"), env_idx, approvers))
    /\ UNCHANGED <<inputs, api_call, approved_design, approvals_file, audit,
                   calls, request1, first_person, reprompts, jenkins, gates>>

\* Stage 1: create_design returns
Design ==
    /\ pc = "design"
    /\ \E outcome \in AgentOutcomes :
         LET r == BaseAgent_run("dev", "design", outcome, {"design document"})
             res == [result EXCEPT !.design_result = r.result]
             k == BaseStage(r, result, res, "Design phase error",
                            "Design phase failed",
                            IF require_approvals
                            THEN Cont("design_approval",
                                      AtStage(res, "design_approval"),
                                      env_idx, approvers)
                            ELSE Cont("dev", AtStage(res, "dev"),
                                      env_idx, approvers))
         IN
         /\ calls' = Append(calls, AgentCall("create_design", r))
         /\ audit' = audit \o r.log
         /\ Goto(k)
         /\ approved_design' =
                IF k.pc = "dev"
                THEN [given |-> TRUE, content |-> r.result.content]
                ELSE approved_design
    /\ UNCHANGED <<inputs, api_call, approvals_file, request1, first_person,
                   reprompts, jenkins, gates>>

\* Stage 2: require_approval for the design returns or raises
DesignApproval ==
    /\ pc = "design_approval"
    /\ \E approved \in BOOLEAN, comments \in Comments, fault \in GateFaults :
         LET g == require_approval(approvals_file, "dev", "design_approval",
                                   approved, comments, fault)
             k == Checkpoint(g,
                    Cont("dev",
                         AtStage([result EXCEPT !.approvals =
                                                  Append(@, g.request)],
                                 "dev"),
                         env_idx, approvers),
                    FullCICDPipeline_run(Failed(result, "failed",
                                                "Design rejected", g.msg)))
         IN
         /\ approvals_file' = g.store
         /\ Goto(k)
         /\ approved_design' =
                IF k.pc = "dev"
                THEN [given |-> TRUE, content |-> result.design_result.content]
                ELSE approved_design
    /\ UNCHANGED <<inputs, api_call, audit, calls, request1, first_person,
                   reprompts, jenkins, gates>>

\* the DevAgent method chosen by task_type
DevMethod ==
    CASE task_type = "feature"  -> "implement_feature"
      [] task_type = "bugfix"   -> "fix_bug"
      [] task_type = "refactor" -> "refactor"
      [] OTHER                  -> "custom_task"

\* Stage 3: the dev agent returns
Dev ==
    /\ pc = "dev"
    /\ \E outcome \in AgentOutcomes :
         LET r == BaseAgent_run("dev", "dev", outcome, {"code changes"})
             res == [result EXCEPT !.dev_result = r.result]
         IN
         /\ calls' = Append(calls,
                Call(DevMethod,
                     IF task_type = "feature" THEN approved_design
                     ELSE NoDesign,
                     "None", <<>>, Returned(r)))
         /\ audit' = audit \o r.log
         /\ Goto(BaseStage(r, result, res, "Dev Agent error",
                           "Dev Agent failed",
                           IF require_approvals
                           THEN Cont("dev_approval",
                                     AtStage(res, "dev_approval"),
                                     env_idx, approvers)
                           ELSE Cont("test", AtStage(res, "test"),
                                     env_idx, approvers)))
    /\ UNCHANGED <<inputs, api_call, approved_design, approvals_file,
                   request1, first_person, reprompts, jenkins, gates>>

\* Stage 4: require_approval for the code changes returns or raises
DevApproval ==
    /\ pc = "dev_approval"
    /\ \E approved \in BOOLEAN, comments \in Comments, fault \in GateFaults :
         LET g == require_approval(approvals_file, "dev", "code_changes",
                                   approved, comments, fault)
         IN
         /\ approvals_file' = g.store
         /\ Goto(Checkpoint(g,
                   Cont("test",
                        AtStage([result EXCEPT !.approvals =
                                                 Append(@, g.request)],
                                "test"),
                        env_idx, approvers),
                   FullCICDPipeline_run(Failed(result, "failed",
                                               "Dev approval rejected",
                                               g.msg))))
    /\ UNCHANGED <<inputs, api_call, approved_design, audit, calls, request1,
                   first_person, reprompts, jenkins, gates>>

\* Stage 5: generate_tests returns
Test ==
    /\ pc = "test"
    /\ \E outcome \in AgentOutcomes :
         LET r == BaseAgent_run("test", "test", outcome, {"tests"})
             res == [result EXCEPT !.test_result = r.result]
         IN
         /\ calls' = Append(calls, AgentCall("generate_tests", r))
         /\ audit' = audit \o r.log
         /\ Goto(BaseStage(r, result, res, "Test Agent error",
                           "Test Agent failed",
                           IF require_approvals
                           THEN Cont("test_approval",
                                     AtStage(res, "test_approval"),
                                     env_idx, approvers)
                           ELSE Cont("cyber", AtStage(res, "cyber"),
                                     env_idx, approvers)))
    /\ UNCHANGED <<inputs, api_call, approved_design, approvals_file,
                   request1, first_person, reprompts, jenkins, gates>>

\* Stage 6: require_approval for the tests returns or raises
TestApproval ==
    /\ pc = "test_approval"
    /\ \E approved \in BOOLEAN, comments \in Comments, fault \in GateFaults :
         LET g == require_approval(approvals_file, "test", "test_generation",
                                   approved, comments, fault)
         IN
         /\ approvals_file' = g.store
         /\ Goto(Checkpoint(g,
                   Cont("cyber",
                        AtStage([result EXCEPT !.approvals =
                                                 Append(@, g.request)],
                                "cyber"),
                        env_idx, approvers),
                   FullCICDPipeline_run(Failed(result, "failed",
                                               "Test approval rejected",
                                               g.msg))))
    /\ UNCHANGED <<inputs, api_call, approved_design, audit, calls, request1,
                   first_person, reprompts, jenkins, gates>>

\* Stage 7: scan returns; the decision is parsed and the gate is entered
Cyber ==
    /\ pc = "cyber"
    /\ \E outcome \in AgentOutcomes, content \in ScanOutputs :
         LET r == BaseAgent_run("cyber", "cyber", outcome, content)
             parsed == parse_decision(r.result)
             res == [result EXCEPT !.cyber_result = r.result]
             gate == [res EXCEPT !.security_decision = parsed.decision,
                                 !.security_blockers = parsed.blockers,
                                 !.stage = "cyber_approval"]
         IN
         /\ calls' = Append(calls, AgentCall("scan", r))
         /\ audit' = audit \o r.log
         /\ Goto(BaseStage(r, result, res, "Cyber Agent error",
                           "Cyber Agent failed", SecurityGate(gate)))
    /\ UNCHANGED <<inputs, api_call, approved_design, approvals_file,
                   request1, first_person, reprompts, jenkins, gates>>

\* Stage 8 on WARN: require_approval for the warnings returns or raises
CyberApproval ==
    /\ pc = "cyber_approval"
    /\ \E approved \in BOOLEAN, comments \in Comments, fault \in GateFaults :
         LET g == require_approval(approvals_file, "cyber", "security_warning",
                                   approved, comments, fault)
         IN
         /\ approvals_file' = g.store
         /\ Goto(Checkpoint(g,
                   Complete([result EXCEPT !.approvals = Append(@, g.request)]),
                   FullCICDPipeline_run(Failed(result, "blocked",
                                               "Security review rejected",
                                               g.msg))))
    /\ UNCHANGED <<inputs, api_call, approved_design, audit, calls, request1,
                   first_person, reprompts, jenkins, gates>>

\* ------------------------------------------------------------ CI/CD stages
\* Stage 9: the try block around trigger_build
BuildStage(r) ==
    LET res == [result EXCEPT !.cicd_result = r.result] IN
    CicdStage(r, result, res, "Build error", "Build failed",
              EnterUpload([res EXCEPT !.build_number = 1]))

\* Stage 9: trigger_build returns
Build ==
    /\ pc = "build"
    /\ \E outcome \in BuildOutcomes :
         LET r == CICDAgent_trigger_build("build", outcome) IN
         /\ calls' = Append(calls, AgentCall("trigger_build", r))
         /\ audit' = audit \o r.log
         /\ Goto(BuildStage(r))
    /\ UNCHANGED <<inputs, api_call, approved_design, approvals_file,
                   request1, first_person, reprompts, jenkins, gates>>

\* Stage 10: upload_artifact returns
ArtifactUpload ==
    /\ pc = "artifact_upload"
    /\ \E outcome \in AgentOutcomes :
         LET r == CICDAgent_upload_artifact("upload", outcome)
             version == IF result.build_number # 0 THEN "1.0.<build>"
                        ELSE "1.0.<time>"
         IN
         /\ calls' = Append(calls, AgentCall("upload_artifact", r))
         /\ audit' = audit \o r.log
         /\ Goto(CicdStage(r, result, result, "Artifact upload error",
                           "Artifact upload failed",
                           EnterEnv([result EXCEPT
                                       !.artifact_version = version,
                                       !.artifact_sha256 = "<sha256>"], 1)))
    /\ UNCHANGED <<inputs, api_call, approved_design, approvals_file,
                   request1, first_person, reprompts, jenkins, gates>>

\* DeployDev returning FAILED when the deployment failed
DeployDev_AbortsOnFailure ==
    /\ pc = "deploy_dev"
    /\ \E outcome \in AgentOutcomes :
         LET env_name == deploy_to[env_idx]
             d == CICDAgent_deploy("dev", "deploy-" \o env_name, <<>>, outcome)
             res == [result EXCEPT !.deployment_results =
                                     Put(@, env_name, d.result.success)]
         IN
         /\ calls' = Append(calls, Call("deploy", NoDesign, "dev", <<>>,
                                        IF d.result.success THEN "ok"
                                        ELSE "failed"))
         /\ audit' = audit \o d.log
         /\ Goto(IF d.result.success THEN EnterEnv(res, env_idx + 1)
                 ELSE Return(Failed(res, "failed", "Deployment failed",
                                    <<d.result.error>>)))
    /\ UNCHANGED <<inputs, api_call, approved_design, approvals_file,
                   request1, first_person, reprompts, jenkins, gates>>

\* dev: deploy returns
DeployDev ==
    /\ pc = "deploy_dev"
    /\ \E outcome \in AgentOutcomes :
         LET env_name == deploy_to[env_idx]
             d == CICDAgent_deploy("dev", "deploy-" \o env_name, <<>>, outcome)
         IN
         /\ calls' = Append(calls, Call("deploy", NoDesign, "dev", <<>>,
                                        IF d.result.success THEN "ok"
                                        ELSE "failed"))
         /\ audit' = audit \o d.log
         /\ Goto(EnterEnv([result EXCEPT !.deployment_results =
                                           Put(@, env_name, d.result.success)],
                          env_idx + 1))
    /\ UNCHANGED <<inputs, api_call, approved_design, approvals_file,
                   request1, first_person, reprompts, jenkins, gates>>

\* x or default, for an Optional[str]
Or(x, default) == IF x \in {"None", ""} THEN default ELSE x

\* staging: require_approval returns or raises
StagingApproval ==
    /\ pc = "deploy_staging_approval"
    /\ \E approved \in BOOLEAN, comments \in Comments, fault \in GateFaults :
         LET g == require_approval(approvals_file, "cicd", "deployment_staging",
                                   approved, comments, fault)
         IN
         /\ approvals_file' = g.store
         /\ Goto(Checkpoint(g,
                   Cont("deploy_staging",
                        AtStage([result EXCEPT !.approvals =
                                                 Append(@, g.request)],
                                "deploy_staging"),
                        env_idx, << Or(g.request.approver, "user") >>),
                   Return(Failed(result, "failed",
                                 "Staging deployment rejected", g.msg))))
    /\ UNCHANGED <<inputs, api_call, approved_design, audit, calls, request1,
                   first_person, reprompts, jenkins, gates>>

\* staging: deploy returns
DeployStaging ==
    /\ pc = "deploy_staging"
    /\ \E outcome \in AgentOutcomes :
         LET d == CICDAgent_deploy("staging", "deploy-staging", approvers,
                                   outcome)
         IN
         /\ calls' = Append(calls, Call("deploy", NoDesign, "staging",
                                        approvers,
                                        IF d.result.success THEN "ok"
                                        ELSE "failed"))
         /\ audit' = audit \o d.log
         /\ Goto(EnterEnv([result EXCEPT !.deployment_results =
                                           Put(@, "staging", d.result.success)],
                          env_idx + 1))
    /\ UNCHANGED <<inputs, api_call, approved_design, approvals_file,
                   request1, first_person, reprompts, jenkins, gates>>

\* the people who may sit at the prompt
Persons == Identities \ {""}

\* prod: the first decision of require_dual_approval; person is who answers
\* the prompt, which asks for no identity
ProdApproval1 ==
    /\ pc = "deploy_prod_approval"
    /\ \E approved1 \in BOOLEAN, comments1 \in Comments, fault \in GateFaults,
          person \in Persons :
         LET g == dual_first(approvals_file, "cicd", "deployment_prod",
                             approved1, comments1, fault)
         IN
         /\ approvals_file' = g.store
         /\ request1' = g.request
         /\ first_person' = person
         /\ Goto(Checkpoint(g,
                   Cont("deploy_prod_approval2", result, env_idx, approvers),
                   Return(Failed(result, "failed",
                                 "Production deployment rejected", g.msg))))
    /\ UNCHANGED <<inputs, api_call, approved_design, audit, calls, reprompts,
                   jenkins, gates>>

\* The values of DeploymentConfig.prod_approvers when a set is configured
\* (PROD_APPROVERS).  No statement of a pipeline run reads it, so a run is
\* the same under each of them.
ProdApproverConfigs == (SUBSET Persons) \ {{}}

\* prod: one pass of the second-approval loop of require_dual_approval;
\* the pipeline passes no authorized_approvers
ProdApproval2 ==
    /\ pc = "deploy_prod_approval2"
    /\ \E approved2 \in BOOLEAN, comments2 \in Comments,
          second_approver \in Identities, fault \in GateFaults :
         LET g == dual_second(approvals_file, "cicd",
                              "deployment_prod_secondary", request1.approver,
                              {}, approved2, comments2, second_approver, fault)
         IN
         /\ approvals_file' = g.store
         /\ IF g.raised = "continue"
            THEN /\ reprompts < MaxReprompts
                 /\ reprompts' = reprompts + 1
                 /\ UNCHANGED <<pc, result, env_idx, approvers>>
            ELSE /\ UNCHANGED reprompts
                 /\ Goto(Checkpoint(g,
                           Cont("deploy_prod",
                                AtStage([result EXCEPT !.approvals =
                                           Append(Append(@, request1),
                                                  g.request)],
                                        "deploy_prod"),
                                env_idx,
                                << Or(request1.approver, "user1"),
                                   Or(g.request.approver, "user2") >>),
                           Return(Failed(result, "failed",
                                         "Production deployment rejected",
                                         g.msg))))
    /\ UNCHANGED <<inputs, api_call, approved_design, audit, calls, request1,
                   first_person, jenkins, gates>>

\* prod: deploy returns
DeployProd ==
    /\ pc = "deploy_prod"
    /\ \E outcome \in AgentOutcomes :
         LET d == CICDAgent_deploy("prod", "deploy-prod", approvers, outcome)
         IN
         /\ calls' = Append(calls, Call("deploy", NoDesign, "prod", approvers,
                                        IF d.result.success THEN "ok"
                                        ELSE "failed"))
         /\ audit' = audit \o d.log
         /\ Goto(EnterEnv([result EXCEPT !.deployment_results =
                                           Put(@, "prod", d.result.success)],
                          env_idx + 1))
    /\ UNCHANGED <<inputs, api_call, approved_design, approvals_file,
                   request1, first_person, reprompts, jenkins, gates>>

Next ==
    \/ Start
    \/ Design
    \/ DesignApproval
    \/ Dev
    \/ DevApproval
    \/ Test
    \/ TestApproval
    \/ Cyber
    \/ CyberApproval
    \/ Build
    \/ ArtifactUpload
    \/ DeployDev
    \/ StagingApproval
    \/ DeployStaging
    \/ ProdApproval1
    \/ ProdApproval2
    \/ DeployProd

Spec == Init /\ [][Next]_vars

\* ------------------------------------------------------------ deployment loop
\* Runs of FullCICDPipeline.run that reach "for env_name in deploy_to":
\* a bugfix run without build job and artifact in which the dev, test and
\* security collaborators succeeded, the decision was APPROVE and, with
\* require_approvals, the code and test checkpoints were approved.
DeployLoopLists == UNION {[1..n -> EnvNames] : n \in 1..MaxDeployTargets}

InitDeploy ==
    /\ task_type = "bugfix"
    /\ skip_design = FALSE
    /\ require_approvals \in BOOLEAN
    /\ deploy_to \in DeployLoopLists
    /\ jenkins_job = FALSE
    /\ artifact_path = FALSE
    /\ approved_design = NoDesign
    /\ request1 = NoRequest
    /\ first_person = "None"
    /\ reprompts = 0
    /\ api_call = NoCall
    /\ jenkins = NoWait
    /\ gates = <<>>
    /\ LET dev == BaseAgent_run("dev", "dev", "ok", {"code changes"})
           test == BaseAgent_run("test", "test", "ok", {"tests"})
           cyber == BaseAgent_run("cyber", "cyber", "ok",
                                  {"DECISION: APPROVE"})
           a1 == require_approval(<<>>, "dev", "code_changes", TRUE, "lgtm",
                                  "none")
           a2 == require_approval(a1.store, "test", "test_generation", TRUE,
                                  "lgtm", "none")
           base == [PipelineResult EXCEPT
                      !.dev_result = dev.result,
                      !.test_result = test.result,
                      !.cyber_result = cyber.result,
                      !.security_decision = parse_decision(cyber.result).decision,
                      !.approvals = IF require_approvals
                                    THEN <<a1.request, a2.request>> ELSE <<>>]
           k == Complete(base)
       IN
       /\ approvals_file = IF require_approvals THEN a2.store ELSE <<>>
       /\ audit = dev.log \o test.log \o cyber.log
       /\ calls = << Call("fix_bug", NoDesign, "None", <<>>, "ok"),
                     AgentCall("generate_tests", test),
                     AgentCall("scan", cyber) >>
       /\ pc = k.pc
       /\ result = k.result
       /\ env_idx = k.env_idx
       /\ approvers = k.approvers

\* ------------------------------------------------------------ super().run()
\* The moment "result = await super().run(...)" of FullCICDPipeline.run
\* returns: the base pipeline of a bugfix run has ended COMPLETE (as in
\* InitDeploy), FAILED (the dev collaborator failed) or BLOCKED (the scan
\* said BLOCK), and the CI/CD part of the run has not begun.
ReturnLists == UNION {[1..n -> EnvNames] : n \in 0..MaxDeployTargets}

InitReturned ==
    /\ pc = "super_returned"
    /\ task_type = "bugfix"
    /\ skip_design = FALSE
    /\ require_approvals \in BOOLEAN
    /\ deploy_to \in ReturnLists
    /\ jenkins_job = FALSE
    /\ artifact_path = FALSE
    /\ approved_design = NoDesign
    /\ env_idx = 0
    /\ approvers = <<>>
    /\ request1 = NoRequest
    /\ first_person = "None"
    /\ reprompts = 0
    /\ api_call = NoCall
    /\ jenkins = NoWait
    /\ gates = <<>>
    /\ \E ended \in {"complete", "failed", "blocked"} :
         LET dev == BaseAgent_run("dev", "dev",
                                  IF ended = "failed" THEN "fail" ELSE "ok",
                                  {"code changes"})
             test == BaseAgent_run("test", "test", "ok", {"tests"})
             cyber == BaseAgent_run("cyber", "cyber", "ok",
                                    IF ended = "blocked"
                                    THEN {"**block**", "critical"}
                                    ELSE {"DECISION: APPROVE"})
             parsed == parse_decision(cyber.result)
             a1 == require_approval(<<>>, "dev", "code_changes", TRUE, "lgtm",
                                    "none")
             a2 == require_approval(a1.store, "test", "test_generation", TRUE,
                                    "lgtm", "none")
             base == [PipelineResult EXCEPT
                        !.dev_result = dev.result,
                        !.test_result = test.result,
                        !.cyber_result = cyber.result,
                        !.security_decision = parsed.decision,
                        !.security_blockers = parsed.blockers,
                        !.approvals = IF require_approvals
                                      THEN <<a1.request, a2.request>>
                                      ELSE <<>>]
         IN
         IF ended = "failed"
         THEN /\ result = Failed([PipelineResult EXCEPT
                                    !.stage = "dev",
                                    !.dev_result = dev.result],
                                 "failed", "Dev Agent failed",
                                 <<dev.result.error>>)
              /\ approvals_file = <<>>
              /\ audit = dev.log
              /\ calls = << Call("fix_bug", NoDesign, "None", <<>>,
                                 "failed") >>
         ELSE /\ result =
                   IF ended = "blocked"
                   THEN Failed([base EXCEPT !.stage = "cyber_approval"],
                               "blocked", "Security gate blocked",
                               parsed.blockers)
                   ELSE [base EXCEPT !.stage = "complete", !.success = TRUE]
              /\ approvals_file = IF require_approvals THEN a2.store ELSE <<>>
              /\ audit = dev.log \o test.log \o cyber.log
              /\ calls = << Call("fix_bug", NoDesign, "None", <<>>, "ok"),
                            AgentCall("generate_tests", test),
                            AgentCall("scan", cyber) >>

\* FullCICDPipeline.run from the return of super().run() to its own return
\* or to the first awaited call of _run_cicd_stages
SuperRunReturns ==
    /\ pc = "super_returned"
    /\ Goto(FullCICDPipeline_run(result))
    /\ UNCHANGED <<inputs, api_call, approved_design, approvals_file, audit,
                   calls, request1, first_person, reprompts, jenkins, gates>>

NextReturned ==
    \/ SuperRunReturns
    \/ DeployDev
    \/ StagingApproval
    \/ DeployStaging
    \/ ProdApproval1
    \/ ProdApproval2
    \/ DeployProd

SpecReturned == InitReturned /\ [][NextReturned]_vars

\* ------------------------------------------------------------ direct calls
\* A CICDAgent on a fresh store path, called without the pipeline.
InitAgent ==
    /\ pc = "agent"
    /\ task_type = "custom"
    /\ skip_design = FALSE
    /\ require_approvals = FALSE
    /\ deploy_to = <<>>
    /\ jenkins_job = FALSE
    /\ artifact_path = FALSE
    /\ result = PipelineResult
    /\ approved_design = NoDesign
    /\ approvals_file = <<>>
    /\ audit = <<>>
    /\ calls = <<>>
    /\ env_idx = 0
    /\ approvers = <<>>
    /\ request1 = NoRequest
    /\ first_person = "None"
    /\ reprompts = 0
    /\ api_call = NoCall
    /\ jenkins = NoWait
    /\ gates = <<>>

\* approved_by lists a caller of CICDAgent.deploy may pass
ApproverLists == UNION {[1..n -> Persons] : n \in 0..3}

\* CICDAgent.deploy called by any caller with any approver list
AgentDeploy ==
    /\ pc = "agent"
    /\ api_call.seq < MaxAgentCalls
    /\ \E environment \in Environment, approved_by \in ApproverLists,
          outcome \in AgentOutcomes :
         LET d == CICDAgent_deploy(environment, "deploy", approved_by, outcome)
         IN
         /\ audit' = audit \o d.log
         /\ api_call' = [NoCall EXCEPT !.seq = api_call.seq + 1,
                                       !.op = "deploy",
                                       !.environment = environment,
                                       !.approved_by = approved_by,
                                       !.performed = d.performed,
                                       !.success = d.result.success]
    /\ UNCHANGED <<inputs, pc, result, approved_design, approvals_file, calls,
                   env_idx, approvers, request1, first_person, reprompts,
                   jenkins, gates>>

\* CICDAgent.rollback called by any caller
AgentRollback ==
    /\ pc = "agent"
    /\ api_call.seq < MaxAgentCalls
    /\ \E environment \in Environment, approved_by \in Persons,
          outcome \in RollbackOutcomes :
         LET d == CICDAgent_rollback(environment, "rollback", approved_by,
                                     outcome)
         IN
         /\ audit' = audit \o d.log
         /\ api_call' = [NoCall EXCEPT !.seq = api_call.seq + 1,
                                       !.op = "rollback",
                                       !.environment = environment,
                                       !.approved_by = <<approved_by>>,
                                       !.performed = d.performed,
                                       !.success = d.result.success]
    /\ UNCHANGED <<inputs, pc, result, approved_design, approvals_file, calls,
                   env_idx, approvers, request1, first_person, reprompts,
                   jenkins, gates>>

\* ContextStore.clear on the store path: every *.json and *.jsonl file of
\* the directory is unlinked, approvals.json and audit.jsonl among them
ContextStore_clear ==
    /\ pc = "agent"
    /\ approvals_file' = <<>>
    /\ audit' = <<>>
    /\ UNCHANGED <<inputs, pc, result, approved_design, calls, env_idx,
                   approvers, request1, first_person, reprompts, api_call,
                   jenkins, gates>>

\* the operations offered on one store path besides a pipeline run
NextStore ==
    \/ AgentDeploy
    \/ AgentRollback
    \/ ContextStore_clear

SpecStore == InitAgent /\ [][NextStore]_vars

\* ------------------------------------------------------------ scan outputs
\* A scan that returned successfully with any output made of the words of
\* Tokens, before its decision is parsed.
InitParse ==
    /\ pc = "parse_decision"
    /\ task_type = "custom"
    /\ skip_design = FALSE
    /\ require_approvals = FALSE
    /\ deploy_to = <<>>
    /\ jenkins_job = FALSE
    /\ artifact_path = FALSE
    /\ \E content \in SUBSET Tokens :
         result = [PipelineResult EXCEPT
                     !.stage = "cyber",
                     !.cyber_result =
                        BaseAgent_run("cyber", "cyber", "ok", content).result]
    /\ approved_design = NoDesign
    /\ approvals_file = <<>>
    /\ audit = <<>>
    /\ calls = <<>>
    /\ env_idx = 0
    /\ approvers = <<>>
    /\ request1 = NoRequest
    /\ first_person = "None"
    /\ reprompts = 0
    /\ api_call = NoCall
    /\ jenkins = NoWait
    /\ gates = <<>>

\* "decision, blockers = self.cyber_agent.parse_decision(cyber_result)" and
\* the two assignments that record them in the result
ParseDecision ==
    /\ pc = "parse_decision"
    /\ LET parsed == parse_decision(result.cyber_result) IN
       result' = [result EXCEPT !.security_decision = parsed.decision,
                                !.security_blockers = parsed.blockers]
    /\ pc' = "parsed"
    /\ UNCHANGED <<inputs, approved_design, approvals_file, audit, calls,
                   env_idx, approvers, request1, first_person, reprompts,
                   api_call, jenkins, gates>>

SpecParse == InitParse /\ [][ParseDecision]_vars

\* ------------------------------------------------------------ JenkinsClient
\* the values of BuildStatus
BuildStatus ==
    {"SUCCESS", "FAILURE", "UNSTABLE", "ABORTED", "PENDING", "RUNNING"}

\* values of config.poll_interval_seconds
PollIntervals == {1, 2}

\* A JenkinsClient before trigger_and_wait is called.
InitJenkins ==
    /\ pc = "jenkins"
    /\ task_type = "custom"
    /\ skip_design = FALSE
    /\ require_approvals = FALSE
    /\ deploy_to = <<>>
    /\ jenkins_job = TRUE
    /\ artifact_path = FALSE
    /\ result = PipelineResult
    /\ approved_design = NoDesign
    /\ approvals_file = <<>>
    /\ audit = <<>>
    /\ calls = <<>>
    /\ env_idx = 0
    /\ approvers = <<>>
    /\ request1 = NoRequest
    /\ first_person = "None"
    /\ reprompts = 0
    /\ api_call = NoCall
    /\ jenkins = NoWait
    /\ gates = <<>>

\* trigger_and_wait up to the first poll of wait_for_build_start: the build
\* is queued, "timeout or self.config.timeout_seconds" is evaluated (a
\* timeout of 0 stands for None and for 0) and the loop clock is read
trigger_and_wait ==
    /\ pc = "jenkins"
    /\ \E timeout \in 0..MaxTimeout, timeout_seconds \in 1..MaxTimeout,
          poll_interval_seconds \in PollIntervals :
         jenkins' = [NoWait EXCEPT
                       !.timeout = IF timeout = 0 THEN timeout_seconds
                                   ELSE timeout,
                       !.poll_interval_seconds = poll_interval_seconds]
    /\ pc' = "wait_for_build_start"
    /\ UNCHANGED <<inputs, result, approved_design, approvals_file, audit,
                   calls, env_idx, approvers, request1, first_person,
                   reprompts, api_call, gates>>

\* One pass of the loop of wait_for_build_start: get_queue_item returns a
\* build number or None.  With a number the loop returns and wait_for_build
\* reads the clock for its own start_time; otherwise TimeoutError is raised
\* when elapsed > timeout, else the poll interval is slept.
wait_for_build_start ==
    /\ pc = "wait_for_build_start"
    /\ \E build_number \in {0, 1} :
         LET elapsed == jenkins.now - jenkins.start_time IN
         IF build_number # 0
         THEN /\ pc' = "wait_for_build"
              /\ jenkins' = [jenkins EXCEPT !.start_time = jenkins.now]
         ELSE IF elapsed > jenkins.timeout
         THEN /\ pc' = "jenkins_done"
              /\ jenkins' = [jenkins EXCEPT !.status = "TimeoutError"]
         ELSE /\ pc' = pc
              /\ jenkins' = [jenkins EXCEPT
                                !.now = @ + jenkins.poll_interval_seconds]
    /\ UNCHANGED <<inputs, result, approved_design, approvals_file, audit,
                   calls, env_idx, approvers, request1, first_person,
                   reprompts, api_call, gates>>

\* One pass of the loop of wait_for_build: get_build_info returns the
\* status of the build.
wait_for_build ==
    /\ pc = "wait_for_build"
    /\ \E status \in BuildStatus :
         LET elapsed == jenkins.now - jenkins.start_time IN
         IF status \notin {"RUNNING", "PENDING"}
         THEN /\ pc' = "jenkins_done"
              /\ jenkins' = [jenkins EXCEPT !.status = status]
         ELSE IF elapsed > jenkins.timeout
         THEN /\ pc' = "jenkins_done"
              /\ jenkins' = [jenkins EXCEPT !.status = "TimeoutError"]
         ELSE /\ pc' = pc
              /\ jenkins' = [jenkins EXCEPT
                                !.now = @ + jenkins.poll_interval_seconds]
    /\ UNCHANGED <<inputs, result, approved_design, approvals_file, audit,
                   calls, env_idx, approvers, request1, first_person,
                   reprompts, api_call, gates>>

NextJenkins ==
    \/ trigger_and_wait
    \/ wait_for_build_start
    \/ wait_for_build

\* The event loop runs the coroutine whenever its await has completed.
SpecJenkins == InitJenkins /\ [][NextJenkins]_vars /\ WF_vars(NextJenkins)

\* An ApprovalGate on a fresh store path, used without the pipeline.
InitGate ==
    /\ pc = "gate"
    /\ task_type = "custom"
    /\ skip_design = FALSE
    /\ require_approvals = TRUE
    /\ deploy_to = <<>>
    /\ jenkins_job = FALSE
    /\ artifact_path = FALSE
    /\ result = PipelineResult
    /\ approved_design = NoDesign
    /\ approvals_file = <<>>
    /\ audit = <<>>
    /\ calls = <<>>
    /\ env_idx = 0
    /\ approvers = <<>>
    /\ request1 = NoRequest
    /\ first_person = "None"
    /\ reprompts = 0
    /\ api_call = NoCall
    /\ jenkins = NoWait
    /\ gates = <<>>

\* identities typed in at the prompt of a direct require_dual_approval
GateIdentities == Identities \cup {"bob"}

\* authorized_approvers lists a caller may pass; empty is "not given"
AllowLists == { {}, {"alice"}, {"user", "alice"} }

\* ApprovalGate.request_approval
GateRequestApproval ==
    /\ pc = "gate"
    /\ api_call.seq < MaxGateCalls
    /\ \E action \in {"deployment_staging", "rollback"} :
         LET created == request_approval(approvals_file, "cicd", action) IN
         /\ approvals_file' = created.store
         /\ api_call' = [NoCall EXCEPT
                            !.seq = api_call.seq + 1,
                            !.op = "request_approval",
                            !.request_id = created.request.request_id]
    /\ UNCHANGED <<inputs, pc, result, approved_design, audit, calls, env_idx,
                   approvers, request1, first_person, reprompts, jenkins,
                   gates>>

\* comments a caller of approve or reject may pass
GateComments == {"lgtm", "not yet"}

\* the status stored for an id, "None" for an unknown id
StatusOf(store, request_id) ==
    IF request_id \in DOMAIN store THEN store[request_id].status ELSE "None"

\* ApprovalGate.approve with the id of a stored request or an unknown id
GateApprove ==
    /\ pc = "gate"
    /\ api_call.seq < MaxGateCalls
    /\ \E request_id \in 1..(Len(approvals_file) + 1),
          approver \in Identities, comments \in GateComments :
         LET r == approve(approvals_file, request_id, approver, comments) IN
         /\ approvals_file' = r.store
         /\ api_call' = [NoCall EXCEPT !.seq = api_call.seq + 1,
                                       !.op = "approve",
                                       !.request_id = request_id,
                                       !.approver = approver,
                                       !.comments = comments,
                                       !.found = StatusOf(approvals_file,
                                                          request_id),
                                       !.raised = r.raised]
    /\ UNCHANGED <<inputs, pc, result, approved_design, audit, calls, env_idx,
                   approvers, request1, first_person, reprompts, jenkins,
                   gates>>

\* ApprovalGate.reject with the id of a stored request or an unknown id
GateReject ==
    /\ pc = "gate"
    /\ api_call.seq < MaxGateCalls
    /\ \E request_id \in 1..(Len(approvals_file) + 1),
          approver \in Identities, comments \in GateComments :
         LET r == reject(approvals_file, request_id, approver, comments) IN
         /\ approvals_file' = r.store
         /\ api_call' = [NoCall EXCEPT !.seq = api_call.seq + 1,
                                       !.op = "reject",
                                       !.request_id = request_id,
                                       !.approver = approver,
                                       !.comments = comments,
                                       !.found = StatusOf(approvals_file,
                                                          request_id),
                                       !.raised = r.raised]
    /\ UNCHANGED <<inputs, pc, result, approved_design, audit, calls, env_idx,
                   approvers, request1, first_person, reprompts, jenkins,
                   gates>>

\* require_dual_approval called with an allow-list, up to the first decision
GateDualFirst ==
    /\ pc = "gate"
    /\ api_call.seq < MaxDualCalls
    /\ \E authorized_approvers \in AllowLists, approved1 \in BOOLEAN,
          comments1 \in Comments, fault \in GateFaults :
         LET g == dual_first(approvals_file, "cicd", "deployment_prod",
                             approved1, comments1, fault)
         IN
         /\ approvals_file' = g.store
         /\ request1' = g.request
         /\ pc' = IF g.raised = "none" THEN "gate_dual_second" ELSE "gate"
         /\ api_call' = [NoCall EXCEPT
                            !.seq = api_call.seq + 1,
                            !.op = "require_dual_approval",
                            !.authorized_approvers = authorized_approvers,
                            !.approved = approved1,
                            !.fault = fault,
                            !.raised = g.raised,
                            !.msg = g.msg]
    /\ UNCHANGED <<inputs, result, approved_design, audit, calls, env_idx,
                   approvers, first_person, reprompts, jenkins, gates>>

\* one pass of the second-approval loop of that call
GateDualSecond ==
    /\ pc = "gate_dual_second"
    /\ \E approved2 \in BOOLEAN, comments2 \in Comments,
          second_approver \in GateIdentities, fault \in GateFaults :
         LET g == dual_second(approvals_file, "cicd",
                              "deployment_prod_secondary", request1.approver,
                              api_call.authorized_approvers, approved2,
                              comments2, second_approver, fault)
         IN
         /\ ~approved2 => second_approver = "user"
         /\ approvals_file' = g.store
         /\ api_call' = [api_call EXCEPT
                            !.approved = approved2,
                            !.approver = IF approved2 THEN second_approver
                                         ELSE "None",
                            !.fault = fault,
                            !.raised = IF g.raised = "continue" THEN "none"
                                       ELSE g.raised,
                            !.msg = g.msg,
                            !.success = (g.raised = "none"),
                            !.approved_by =
                                IF g.raised = "none"
                                THEN <<request1.approver, g.request.approver>>
                                ELSE <<>>]
         /\ IF g.raised = "continue"
            THEN /\ reprompts < MaxReprompts
                 /\ reprompts' = reprompts + 1
                 /\ pc' = pc
            ELSE /\ pc' = "gate"
                 /\ UNCHANGED reprompts
    /\ UNCHANGED <<inputs, result, approved_design, audit, calls, env_idx,
                   approvers, request1, first_person, jenkins, gates>>

\* request_approval, approve and reject in any order
NextGate ==
    \/ GateRequestApproval
    \/ GateApprove
    \/ GateReject

SpecGate == InitGate /\ [][NextGate]_vars

\* calls of require_dual_approval
NextDual ==
    \/ GateDualFirst
    \/ GateDualSecond

\* The prompt loop is left when an admissible answer is given; whoever sits
\* at the prompt gives one eventually.
SpecDual ==
    InitGate /\ [][NextDual]_vars /\ SF_vars(GateDualSecond /\ pc' = "gate")

\* Every way a deployment is made: by the loop of a pipeline run or by a
\* direct call of CICDAgent.deploy.
InitDeployments == InitDeploy \/ InitAgent

NextDeploy ==
    \/ DeployDev
    \/ StagingApproval
    \/ DeployStaging
    \/ ProdApproval1
    \/ ProdApproval2
    \/ DeployProd
    \/ AgentDeploy

SpecDeploy == InitDeployments /\ [][NextDeploy]_vars

\* ------------------------------------------------------------ concurrent runs
\* Several runs share one approvals.json.  Each run creates a request and
\* then resolves it.  _save_request and _update_status read the whole file
\* with _load_approvals, change the dict they read and write the whole dict
\* back with _save_approvals; no lock is held between the read and the
\* write, so the steps of different runs interleave.  Here approvals_file
\* is the dict of the file, keyed by request id; the uuid of the request of
\* run r is r.
Runs == 1..MaxRuns

NoOp == [pc |-> "idle", approvals |-> <<>>, status |-> "None",
         comments |-> "None"]

InitRuns ==
    /\ pc = "runs"
    /\ task_type = "custom"
    /\ skip_design = FALSE
    /\ require_approvals = TRUE
    /\ deploy_to = <<>>
    /\ jenkins_job = FALSE
    /\ artifact_path = FALSE
    /\ result = PipelineResult
    /\ approved_design = NoDesign
    /\ approvals_file = <<>>
    /\ audit = <<>>
    /\ calls = <<>>
    /\ env_idx = 0
    /\ approvers = <<>>
    /\ request1 = NoRequest
    /\ first_person = "None"
    /\ reprompts = 0
    /\ api_call = NoCall
    /\ jenkins = NoWait
    /\ gates = [r \in Runs |-> NoOp]

\* request_approval up to the return of _load_approvals in _save_request
_save_request_load ==
    /\ pc = "runs"
    /\ \E r \in Runs :
         /\ gates[r].pc = "idle"
         /\ gates' = [gates EXCEPT ![r].pc = "_save_request",
                                   ![r].approvals = approvals_file]
    /\ UNCHANGED <<inputs, pc, result, approved_design, approvals_file,
                   audit, calls, env_idx, approvers, request1, first_person,
                   reprompts, api_call, jenkins>>

\* the rest of _save_request: the request is put into the dict that was
\* read and the dict is written
_save_request_save ==
    /\ pc = "runs"
    /\ \E r \in Runs :
         /\ gates[r].pc = "_save_request"
         /\ approvals_file' =
               Put(gates[r].approvals, r, ApprovalRequest(r, "pipeline", "run"))
         /\ gates' = [gates EXCEPT ![r].pc = "requested"]
    /\ UNCHANGED <<inputs, pc, result, approved_design, audit, calls,
                   env_idx, approvers, request1, first_person, reprompts,
                   api_call, jenkins>>

\* approve or reject up to the return of _load_approvals in _update_status;
\* an id that is not in the dict raises ValueError
_update_status_load ==
    /\ pc = "runs"
    /\ \E r \in Runs, status \in {"approved", "rejected"},
          comments \in Comments :
         /\ gates[r].pc = "requested"
         /\ gates' = [gates EXCEPT
                        ![r].pc = IF r \in DOMAIN approvals_file
                                  THEN "_update_status" ELSE "ValueError",
                        ![r].approvals = approvals_file,
                        ![r].status = status,
                        ![r].comments = comments]
    /\ UNCHANGED <<inputs, pc, result, approved_design, approvals_file,
                   audit, calls, env_idx, approvers, request1, first_person,
                   reprompts, api_call, jenkins>>

\* the rest of _update_status: the record of the dict that was read is
\* changed and the dict is written
_update_status_save ==
    /\ pc = "runs"
    /\ \E r \in Runs :
         /\ gates[r].pc = "_update_status"
         /\ approvals_file' =
               _update_status(gates[r].approvals, r, gates[r].status, "user",
                              gates[r].comments).store
         /\ gates' = [gates EXCEPT ![r].pc = "resolved"]
    /\ UNCHANGED <<inputs, pc, result, approved_design, audit, calls,
                   env_idx, approvers, request1, first_person, reprompts,
                   api_call, jenkins>>

NextRuns ==
    \/ _save_request_load
    \/ _save_request_save
    \/ _update_status_load
    \/ _update_status_save

SpecRuns == InitRuns /\ [][NextRuns]_vars

\* ------------------------------------------------------------ properties
\* an Optional[AgentResult] that is not None
IsSet(r) == r.task_id # "None"

\* the design stage is part of the run
DesignRuns == task_type = "feature" /\ ~skip_design

DevMethods == {"implement_feature", "fix_bug", "refactor", "custom_task"}

CicdCollaborators == {"trigger_build", "upload_artifact", "deploy"}

\* the stage a collaborator method belongs to
StageOf(collaborator) ==
    CASE collaborator = "create_design"  -> "design"
      [] collaborator \in DevMethods     -> "dev"
      [] collaborator = "generate_tests" -> "test"
      [] collaborator = "scan"           -> "security"
      [] OTHER                           -> collaborator

\* the stages whose collaborator was invoked, in the order of invocation
InvokedStages == [i \in DOMAIN calls |-> StageOf(calls[i].collaborator)]

\* the stages of the base pipeline of this run, in their fixed order
CanonicalOrder ==
    (IF DesignRuns THEN <<"design">> ELSE <<>>)
    \o <<"dev", "test", "security">>

BaseCalls == SelectSeq(InvokedStages, LAMBDA st : st \notin CicdCollaborators)

IsPrefix(s, t) == Len(s) <= Len(t) /\ s = SubSeq(t, 1, Len(s))

\* the requests of the store with a given action
RequestsFor(action) ==
    {i \in DOMAIN approvals_file : approvals_file[i].action = action}

\* C1: the recorded stage outcomes form a prefix of the canonical order: a
\* dev outcome exists only if design was skipped by policy or succeeded, a
\* test outcome only if the dev outcome exists and succeeded, a security
\* outcome only if the test outcome exists and succeeded; the collaborators
\* of the base stages are invoked in canonical order, each at most once.
C1_StageOutcomesPrefix ==
    /\ IsSet(result.dev_result) =>
          \/ ~DesignRuns /\ ~IsSet(result.design_result)
          \/ IsSet(result.design_result) /\ result.design_result.success
    /\ IsSet(result.test_result) =>
          IsSet(result.dev_result) /\ result.dev_result.success
    /\ IsSet(result.cyber_result) =>
          IsSet(result.test_result) /\ result.test_result.success
    /\ IsPrefix(BaseCalls, CanonicalOrder)

C1_Witness ==
    /\ DesignRuns
    /\ IsSet(result.design_result)
    /\ IsSet(result.cyber_result)
    /\ BaseCalls = CanonicalOrder

\* C2: when the task is not a feature or skip_design is set, the design
\* collaborator is never invoked, no design outcome is recorded, no
\* design-approval request is created and the dev collaborator gets no
\* approved design.
C2_NoDesignWhenSkipped ==
    ~DesignRuns =>
        /\ ~IsSet(result.design_result)
        /\ \A i \in DOMAIN calls :
              /\ calls[i].collaborator # "create_design"
              /\ ~calls[i].approved_design.given
        /\ RequestsFor("design_approval") = {}
        /\ ~approved_design.given

C2_Witness ==
    /\ task_type = "feature"
    /\ skip_design
    /\ require_approvals
    /\ IsSet(result.dev_result)
    /\ \E i \in DOMAIN calls : calls[i].collaborator = "implement_feature"

\* C3: whenever the security decision is BLOCK the run has ended with stage
\* BLOCKED, whatever require_approvals is, and no approval request was
\* created at the security gate.
C3_BlockIsFinal ==
    result.security_decision = "BLOCK" =>
        /\ pc = "done"
        /\ result.stage = "blocked"
        /\ ~result.success
        /\ RequestsFor("security_warning") = {}

C3_Witness ==
    /\ result.security_decision = "BLOCK"
    /\ require_approvals
    /\ result.stage = "blocked"

\* C4: whenever the security decision is BLOCK the list of blocking reasons
\* recorded on the run is non-empty.
C4_BlockHasReasons ==
    result.security_decision = "BLOCK" => result.security_blockers # <<>>

\* some request of the store was rejected
HasRejected ==
    \E i \in DOMAIN approvals_file : approvals_file[i].status = "rejected"

RejectedActions ==
    {approvals_file[i].action :
        i \in {j \in DOMAIN approvals_file :
                  approvals_file[j].status = "rejected"}}

Outcomes ==
    <<result.design_result, result.dev_result, result.test_result,
      result.cyber_result, result.cicd_result, result.deployment_results>>

\* C6: a rejection makes the run return at once: the step that records it
\* invokes no collaborator and records no outcome, the run is then over with
\* the rejected request being the last one created, and afterwards no
\* collaborator is invoked, no outcome recorded and no request created.
C6_RejectionStopsRun ==
    [][ /\ HasRejected' =>
              /\ pc' = "done"
              /\ approvals_file'[Len(approvals_file')].status = "rejected"
        /\ (HasRejected' /\ ~HasRejected) =>
              /\ calls' = calls
              /\ Outcomes' = Outcomes
        /\ HasRejected => UNCHANGED <<calls, result, approvals_file>>
      ]_vars

C6_Witness ==
    /\ pc = "done"
    /\ "code_changes" \in RejectedActions
    /\ ~IsSet(result.test_result)
    /\ Len(calls) = 1

WorkCollaborators ==
    {"create_design", "generate_tests", "scan", "trigger_build",
     "upload_artifact"} \cup DevMethods

\* the error of a run that ended because the collaborator failed
StageError(collaborator, returned) ==
    LET kind == IF returned = "raised" THEN "error" ELSE "failed" IN
    CASE StageOf(collaborator) = "design"   -> "Design phase " \o kind
      [] StageOf(collaborator) = "dev"      -> "Dev Agent " \o kind
      [] StageOf(collaborator) = "test"     -> "Test Agent " \o kind
      [] StageOf(collaborator) = "security" -> "Cyber Agent " \o kind
      [] collaborator = "trigger_build"     -> "Build " \o kind
      [] OTHER                              -> "Artifact upload " \o kind

FailedCalls ==
    {i \in DOMAIN calls : /\ calls[i].collaborator \in WorkCollaborators
                          /\ calls[i].returned # "ok"}

\* C7: when a work collaborator (design, dev, test, security, build, upload)
\* returns success=false or raises, the run ends FAILED with the error of
\* that stage, the failed call is the last collaborator call of the run, and
\* no call, approval request or change of the result follows.
C7_CollaboratorFailureEndsRun ==
    [][ /\ \A i \in FailedCalls' :
              /\ i = Len(calls')
              /\ pc' = "done"
              /\ result'.stage = "failed"
              /\ ~result'.success
              /\ result'.error.prefix =
                     StageError(calls'[i].collaborator, calls'[i].returned)
        /\ (FailedCalls' # {} /\ FailedCalls = {}) =>
              approvals_file' = approvals_file
        /\ FailedCalls # {} => UNCHANGED <<calls, result, approvals_file>>
      ]_vars

C7_Witness ==
    /\ pc = "done"
    /\ calls # <<>>
    /\ calls[Len(calls)].collaborator = "upload_artifact"
    /\ calls[Len(calls)].returned = "raised"
    /\ result.error.prefix = "Artifact upload error"
    /\ Len(calls) = 6

CicdPcs ==
    {"build", "artifact_upload", "deploy_dev", "deploy_staging_approval",
     "deploy_staging", "deploy_prod_approval", "deploy_prod_approval2",
     "deploy_prod"}

\* the run left the security gate towards completion
Proceeded ==
    /\ result.success
    /\ IF deploy_to = <<>>
       THEN pc = "done" /\ result.stage = "complete"
       ELSE pc \in CicdPcs \cup {"crashed"}

\* C8: a WARN creates one approval request of the security gate when
\* require_approvals is set (the gate is passed only with that request
\* approved) and none otherwise, an APPROVE creates none; when the gate is
\* left without a rejection the run completes or goes on to deployment.
C8_SecurityGateRequests ==
    [][ /\ Cardinality(RequestsFor("security_warning"))' <= 1
        /\ result'.security_decision = "APPROVE" =>
              RequestsFor("security_warning")' = {}
        /\ (result'.security_decision = "WARN" /\ ~require_approvals) =>
              RequestsFor("security_warning")' = {}
        /\ ( /\ result'.security_decision = "WARN"
             /\ require_approvals
             /\ result'.stage # "cyber_approval"
             /\ result'.error.detail # <<"Errno", "approvals.json">> ) =>
              /\ Cardinality(RequestsFor("security_warning"))' = 1
        /\ ( /\ result'.security_decision = "WARN"
             /\ require_approvals
             /\ result'.stage \notin {"cyber_approval", "blocked"} ) =>
              \E i \in DOMAIN result'.approvals :
                  /\ result'.approvals[i].action = "security_warning"
                  /\ result'.approvals[i].status = "approved"
        /\ ( \/ /\ pc = "cyber"
                /\ result'.security_decision \in {"WARN", "APPROVE"}
                /\ pc' # "cyber_approval"
             \/ /\ pc = "cyber_approval"
                /\ Len(result'.approvals) > Len(result.approvals) ) =>
              Proceeded'
      ]_vars

C8_Witness ==
    /\ result.security_decision = "WARN"
    /\ require_approvals
    /\ Cardinality(RequestsFor("security_warning")) = 1
    /\ pc = "done"
    /\ result.stage = "complete"

\* C9: a feature run without approvals in which every collaborator succeeds
\* and the decision is APPROVE ends COMPLETE with eight entries in the audit
\* log and no request in the approval store.
C9_FeatureRunScenario ==
    ( /\ task_type = "feature"
      /\ ~skip_design
      /\ ~require_approvals
      /\ deploy_to = <<>>
      /\ pc = "done"
      /\ \A i \in DOMAIN calls : calls[i].returned = "ok"
      /\ result.security_decision = "APPROVE" ) =>
        /\ result.stage = "complete"
        /\ result.success
        /\ Len(audit) = 8
        /\ approvals_file = <<>>
        /\ result.approvals = <<>>

C9_Witness ==
    /\ task_type = "feature"
    /\ ~skip_design
    /\ ~require_approvals
    /\ deploy_to = <<>>
    /\ pc = "done"
    /\ Len(calls) = 4
    /\ \A i \in DOMAIN calls : calls[i].returned = "ok"
    /\ result.security_decision = "APPROVE"

\* something of the deployment phase has happened
DeploymentEntered ==
    \/ pc \in CicdPcs
    \/ \E i \in DOMAIN calls : calls[i].collaborator \in CicdCollaborators
    \/ DOMAIN result.deployment_results # {}
    \/ \E i \in DOMAIN approvals_file :
          approvals_file[i].agent = "cicd"

\* C10: the deployment phase is entered only after the security gate was
\* passed with success; a run with decision BLOCK ends BLOCKED with the error
\* "Security gate blocked" and never invokes build, upload or deploy.
C10_DeploymentAfterGate ==
    /\ DeploymentEntered =>
          /\ IsSet(result.cyber_result) /\ result.cyber_result.success
          /\ result.security_decision \in {"WARN", "APPROVE"}
          /\ (result.security_decision = "WARN" /\ require_approvals) =>
                \E i \in DOMAIN result.approvals :
                    /\ result.approvals[i].action = "security_warning"
                    /\ result.approvals[i].status = "approved"
    /\ pc \in CicdPcs => result.success
    /\ result.security_decision = "BLOCK" =>
          /\ pc = "done"
          /\ result.stage = "blocked"
          /\ result.error.prefix = "Security gate blocked"
          /\ ~DeploymentEntered

C10_Witness ==
    /\ result.security_decision = "BLOCK"
    /\ deploy_to # <<>>
    /\ jenkins_job
    /\ pc = "done"
    /\ result.stage = "blocked"

\* the invocations of the deploy collaborator made by the run, in order
Deploys == SelectSeq(calls, LAMBDA c : c.collaborator = "deploy")

\* approvals the table asks for
ApprovalCount(environment) ==
    CASE environment = "dev"     -> 0
      [] environment = "staging" -> 1
      [] OTHER                   -> 2

Placeholders(environment) ==
    CASE environment = "dev"     -> <<>>
      [] environment = "staging" -> <<"auto-approved">>
      [] OTHER                   -> <<"auto-approved-1", "auto-approved-2">>

DeployPcs == {"deploy_dev", "deploy_staging", "deploy_prod"}

\* C11: the i-th deploy invocation of a run is for the i-th name of
\* deploy_to, and it carries no approver for dev, one for staging and two
\* for prod, with or without require_approvals; without it the approvers
\* are the placeholder identities.
C11_ApproverCountsInOrder ==
    /\ Len(Deploys) <= Len(deploy_to)
    /\ pc \in DeployPcs => Len(Deploys) = env_idx - 1
    /\ \A i \in DOMAIN Deploys :
          /\ Deploys[i].environment = Lower(deploy_to[i])
          /\ Len(Deploys[i].approved_by) =
                 ApprovalCount(Deploys[i].environment)
          /\ ~require_approvals =>
                 Deploys[i].approved_by = Placeholders(Deploys[i].environment)

C11_Witness ==
    /\ deploy_to = <<"prod", "staging">>
    /\ ~require_approvals
    /\ Len(Deploys) = 2
    /\ Deploys[2].approved_by = <<"auto-approved">>
    /\ pc = "done"

\* the deployment records of the audit log for an environment
DeploymentRecords(environment) ==
    {i \in DOMAIN audit : /\ audit[i].event = "deployment"
                          /\ audit[i].environment = environment}

\* the first request of the dual approval a secondary request belongs to:
\* the last request for the primary action created before it
Companion(j) ==
    LET before == {i \in 1..(j - 1) :
                      approvals_file[i].action = "deployment_prod"}
    IN CHOOSE i \in before : \A k \in before : k <= i

ApprovedSecondaries ==
    {j \in DOMAIN approvals_file :
        /\ approvals_file[j].action = "deployment_prod_secondary"
        /\ approvals_file[j].status = "approved"}

\* C12: a prod deployment handed to the deploy collaborator carries at
\* least two different approver identities (exactly two different ones when
\* the pipeline makes it); the two requests of a dual approval are never
\* both approved under one identity; a direct call of deploy for prod with
\* fewer than two different approvers fails and performs nothing.
C12_ProdApproversDistinct ==
    /\ \A i \in DeploymentRecords("prod") :
          Cardinality(Range(audit[i].approved_by)) >= 2
    /\ \A i \in DOMAIN Deploys :
          Deploys[i].environment = "prod" =>
              /\ Len(Deploys[i].approved_by) = 2
              /\ Deploys[i].approved_by[1] # Deploys[i].approved_by[2]
    /\ \A j \in ApprovedSecondaries :
          /\ approvals_file[Companion(j)].status = "approved"
          /\ approvals_file[Companion(j)].approver # approvals_file[j].approver
    /\ ( /\ api_call.op = "deploy"
         /\ api_call.environment = "prod"
         /\ Cardinality(Range(api_call.approved_by)) < 2 ) =>
              /\ ~api_call.success
              /\ ~api_call.performed

C12_Witness ==
    /\ require_approvals
    /\ reprompts = 1
    /\ ApprovedSecondaries # {}
    /\ \E i \in DOMAIN Deploys :
          /\ Deploys[i].environment = "prod"
          /\ Deploys[i].approved_by = <<"user", "alice">>
    /\ DeploymentRecords("prod") # {}

\* C13: with require_approvals, when the person who granted the first prod
\* approval is A, the prod deployment is made with approvers <<A, B>> for
\* a second identity B other than A (a second approval under A having been
\* refused), a dev deployment with no approver and a staging deployment
\* with one.
C13_ApproversAreThePeopleWhoApproved ==
    require_approvals =>
        /\ pc = "deploy_prod" =>
              /\ Len(approvers) = 2
              /\ approvers[1] = first_person
              /\ approvers[2] # first_person
        /\ pc = "deploy_staging" => Len(approvers) = 1
        /\ pc = "deploy_dev" => approvers = <<>>

\* the identity typed at the second prompt may not be accepted
Inadmissible(call, first_approver) ==
    \/ call.approver = first_approver
    \/ /\ call.authorized_approvers # {}
       /\ call.approver \notin call.authorized_approvers

\* the last request of the store
LastRequest(store) == store[Len(store)]

\* C14, the steps: require_dual_approval asks for the second decision only
\* with the first request approved; with the store working, a positive
\* second decision under the first approver's identity or one outside the
\* allow-list starts the prompt over and raises nothing, a positive one
\* under an admissible identity returns with the second request approved
\* by it, and a negative first or second decision raises PermissionError.
C14_DualSteps ==
    /\ pc' = "gate_dual_second" =>
          /\ request1'.status = "approved"
          /\ approvals_file'[request1'.request_id] = request1'
          /\ api_call'.raised = "none"
    /\ (pc = "gate" /\ api_call'.seq = api_call.seq + 1
                    /\ api_call'.fault = "none") =>
          /\ Len(approvals_file') = Len(approvals_file) + 1
          /\ LastRequest(approvals_file').action = "deployment_prod"
          /\ IF api_call'.approved
             THEN pc' = "gate_dual_second"
             ELSE /\ pc' = "gate"
                  /\ api_call'.raised = "PermissionError"
                  /\ api_call'.msg[1] = "First approval rejected"
                  /\ LastRequest(approvals_file').status = "rejected"
    /\ (pc = "gate_dual_second" /\ api_call'.fault = "none") =>
          IF ~api_call'.approved
          THEN /\ pc' = "gate"
               /\ api_call'.raised = "PermissionError"
               /\ api_call'.msg[1] = "Second approval rejected"
               /\ ~api_call'.success
          ELSE IF Inadmissible(api_call', request1.approver)
          THEN /\ pc' = "gate_dual_second"
               /\ ~api_call'.success
               /\ reprompts' = reprompts + 1
          ELSE /\ pc' = "gate"
               /\ api_call'.success
               /\ api_call'.raised = "none"
               /\ LastRequest(approvals_file').status = "approved"
               /\ LastRequest(approvals_file').approver = api_call'.approver
               /\ api_call'.approved_by =
                      <<request1.approver, api_call'.approver>>

\* C14: the steps of require_dual_approval are as above, and a call that
\* waits for the second decision returns or raises once an admissible
\* answer is given.
C14_DualApprovalProtocol ==
    /\ [][C14_DualSteps]_vars
    /\ (pc = "gate_dual_second") ~> (pc = "gate")

C14_Witness ==
    /\ pc = "gate"
    /\ api_call.op = "require_dual_approval"
    /\ api_call.authorized_approvers = {"alice"}
    /\ api_call.success
    /\ reprompts = 1
    /\ Len(approvals_file) = 3

\* C15: whichever set of authorized prod approvers is configured, the
\* approvers of every prod deploy invocation of a pipeline run with
\* require_approvals belong to it.
C15_ProdApproversAuthorized ==
    \A prod_approvers \in ProdApproverConfigs :
        \A i \in DOMAIN Deploys :
            (require_approvals /\ Deploys[i].environment = "prod") =>
                Range(Deploys[i].approved_by) \subseteq prod_approvers

\* the deploy invocations of the run for an environment
DeploysTo(environment) ==
    {i \in DOMAIN Deploys : Deploys[i].environment = environment}

\* the approved requests of the store with a given action
ApprovedFor(action) ==
    {i \in RequestsFor(action) : approvals_file[i].status = "approved"}

\* the positions of deploy_to, up to the one being processed, that name an
\* environment
Reached(environment) ==
    {i \in DOMAIN deploy_to : i <= env_idx /\ Lower(deploy_to[i]) = environment}

\* C16: with require_approvals, every staging deploy invocation, made or
\* about to be made, has an approved staging request of its own, every
\* prod deploy invocation an approved first and an approved second
\* request of its own; requests are created for staging and prod entries
\* of deploy_to only, so none for dev, and a dev deployment leaves the
\* approval store as it is.
C16_ApprovedBeforeDeploy ==
    [][ require_approvals =>
          LET staging == Cardinality(DeploysTo("staging")')
                         + (IF pc' = "deploy_staging" THEN 1 ELSE 0)
              prod == Cardinality(DeploysTo("prod")')
                      + (IF pc' = "deploy_prod" THEN 1 ELSE 0)
          IN
          /\ staging <= Cardinality(ApprovedFor("deployment_staging")')
          /\ prod <= Cardinality(ApprovedFor("deployment_prod")')
          /\ prod <= Cardinality(ApprovedFor("deployment_prod_secondary")')
          /\ Cardinality(RequestsFor("deployment_staging")')
                 <= Cardinality(Reached("staging")')
          /\ Cardinality(RequestsFor("deployment_prod")')
                 <= Cardinality(Reached("prod")')
          /\ \A i \in DOMAIN approvals_file' :
                 approvals_file'[i].agent = "cicd" =>
                     approvals_file'[i].action \in
                         {"deployment_staging", "deployment_prod",
                          "deployment_prod_secondary"}
          /\ pc = "deploy_dev" => approvals_file' = approvals_file
      ]_vars

C16_Witness ==
    /\ require_approvals
    /\ deploy_to = <<"dev", "prod">>
    /\ Len(Deploys) = 2
    /\ Cardinality(ApprovedFor("deployment_prod_secondary")) = 1
    /\ Len(approvals_file) = 4
    /\ pc = "done"

\* the key of deployment_results written for the i-th name of deploy_to
ResultKey(i) ==
    IF Lower(deploy_to[i]) = "dev" THEN deploy_to[i] ELSE Lower(deploy_to[i])

\* where the loop stands after entering an environment
EntryPcs(environment) ==
    CASE environment = "dev"     -> {"deploy_dev"}
      [] environment = "staging" -> {"deploy_staging_approval", "deploy_staging"}
      [] OTHER                   -> {"deploy_prod_approval", "deploy_prod"}

\* the i-th deploy invocation is the last one that wrote its key
LastForKey(i) ==
    \A j \in DOMAIN Deploys : j > i => ResultKey(j) # ResultKey(i)

C18_NoFailedAfterDeploy ==
    result.stage = "failed" => Deploys = <<>>

ApprovalPcs ==
    {"deploy_staging_approval", "deploy_prod_approval",
     "deploy_prod_approval2"}

\* C18 amended: in the deployment loop the run becomes FAILED only in a
\* step where require_approval or require_dual_approval raises
\* PermissionError for a staging or prod entry (a decision was negative, or
\* the store file could not be written), before the deploy invocation of
\* that entry and possibly after those of earlier entries; no result of a
\* deploy invocation makes the run FAILED.
C18_FailedOnlyByRejection ==
    [][ /\ (result'.stage = "failed" /\ result.stage # "failed") =>
              /\ pc \in ApprovalPcs
              /\ pc' = "done"
              /\ calls' = calls
              /\ Len(Deploys) = env_idx - 1
              /\ result'.error.prefix =
                     (IF pc = "deploy_staging_approval"
                      THEN "Staging deployment rejected"
                      ELSE "Production deployment rejected")
              /\ \/ /\ approvals_file' # <<>>
                    /\ LastRequest(approvals_file').status = "rejected"
                    /\ result'.error.detail[1] \in
                           {"Approval rejected", "First approval rejected",
                            "Second approval rejected"}
                 \/ result'.error.detail = <<"Errno", "approvals.json">>
        /\ pc \in DeployPcs => result'.stage # "failed"
      ]_vars

C18_Witness ==
    /\ deploy_to = <<"dev", "staging">>
    /\ Len(Deploys) = 1
    /\ pc = "done"
    /\ result.stage = "failed"
    /\ result.error.prefix = "Staging deployment rejected"
    /\ LastRequest(approvals_file).status = "rejected"

\* the last line of the audit log is the deployment record of a call
DeploymentLogged(log, environment, approved_by, success) ==
    /\ log # <<>>
    /\ log[Len(log)].event = "deployment"
    /\ log[Len(log)].environment = environment
    /\ log[Len(log)].approved_by = approved_by
    /\ log[Len(log)].status = (IF success THEN "success" ELSE "failed")

\* C19: every call of deploy, by the pipeline or by another caller,
\* appends to the audit log a deployment record with the environment, the
\* approvers and the status success or failed of that call, whatever the
\* call returns.
C19_EveryDeployLogged ==
    [][ /\ Len(Deploys') = Len(Deploys) + 1 =>
              /\ Len(audit') > Len(audit)
              /\ DeploymentLogged(audit', Deploys'[Len(Deploys')].environment,
                                  Deploys'[Len(Deploys')].approved_by,
                                  Deploys'[Len(Deploys')].returned = "ok")
        /\ (api_call'.op = "deploy" /\ api_call'.seq = api_call.seq + 1) =>
              /\ Len(audit') > Len(audit)
              /\ DeploymentLogged(audit', api_call'.environment,
                                  api_call'.approved_by, api_call'.success)
      ]_vars

\* a call of approve or reject was made in this step
ResolveCalled ==
    /\ api_call'.seq = api_call.seq + 1
    /\ api_call'.op \in {"approve", "reject"}

\* C20: approve and reject called with an id that is not in the approval
\* store raise the not-found error (ValueError) and leave the store as it
\* was: no record is created or changed.
C20_UnknownIdNotFound ==
    [][ (ResolveCalled /\ api_call'.request_id \notin DOMAIN approvals_file) =>
            /\ api_call'.raised = "ValueError"
            /\ approvals_file' = approvals_file
      ]_vars

C20_Witness ==
    /\ api_call.op = "reject"
    /\ api_call.raised = "ValueError"
    /\ api_call.request_id = 2
    /\ Len(approvals_file) = 1
    /\ approvals_file[1].status = "pending"

\* the values of ApprovalStatus
ApprovalStatus == {"pending", "approved", "rejected", "timed_out"}

\* C21: the status of an approval request changes exactly once, from
\* pending to approved or from pending to rejected: a request that is
\* approved is never rejected later, a request that is rejected is never
\* approved later, and no operation of the gate sets the status timed_out.
C21_StatusChangesOnce ==
    [][ \A i \in DOMAIN approvals_file :
          /\ approvals_file[i].status \in {"approved", "rejected"} =>
                approvals_file'[i].status = approvals_file[i].status
          /\ approvals_file'[i].status \in ApprovalStatus \ {"timed_out"}
      ]_vars

\* the status a call of approve or reject asks for
AskedStatus(call) == IF call.op = "approve" THEN "approved" ELSE "rejected"

\* C22: approve on a request that is already resolved succeeds and stores
\* the new approver and comments (the status becomes approved), reject
\* likewise (the status becomes rejected); all other records of the store
\* are as before the call.
C22_ResolveOverwrites ==
    [][ (ResolveCalled /\ api_call'.request_id \in DOMAIN approvals_file) =>
            /\ api_call'.raised = "none"
            /\ approvals_file' =
                 [approvals_file EXCEPT ![api_call'.request_id] =
                    [@ EXCEPT !.status = AskedStatus(api_call'),
                              !.approver = api_call'.approver,
                              !.comments = api_call'.comments]]
      ]_vars

C22_Witness ==
    /\ api_call.op = "approve"
    /\ api_call.found = "rejected"
    /\ api_call.raised = "none"
    /\ api_call.request_id = 1
    /\ Len(approvals_file) = 2
    /\ approvals_file[1].status = "approved"
    /\ approvals_file[1].approver = "alice"
    /\ approvals_file[1].comments = "not yet"
    /\ approvals_file[2].status = "pending"

\* the positions at which the run awaits an approval checkpoint
CheckpointPcs ==
    {"design_approval", "dev_approval", "test_approval", "cyber_approval"}
    \cup ApprovalPcs

\* a decision was stored in this step: a new request, approved or rejected
DecisionStored ==
    /\ Len(approvals_file') = Len(approvals_file) + 1
    /\ LastRequest(approvals_file').status \in {"approved", "rejected"}

\* C23: when the approval store fails while a checkpoint runs (the file
\* cannot be read or written), the failure leaves the run as an error of
\* its own: the run neither goes on to the next stage as if approved nor
\* ends with a "rejected" error as if a human had rejected.
C23_GateFailurePropagates ==
    [][ (pc \in CheckpointPcs /\ ~DecisionStored /\ reprompts' = reprompts) =>
            /\ pc' = "crashed"
            /\ result' = result
      ]_vars

\* the events the collaborators write to the audit log themselves
CollaboratorEvents ==
    {"agent_start", "agent_complete", "build_trigger", "artifact_upload",
     "deployment", "rollback"}

\* an entry other than a collaborator's own was appended in this step
TransitionLogged ==
    /\ Len(audit') > Len(audit)
    /\ \E i \in (Len(audit) + 1)..Len(audit') :
          audit'[i].event \notin CollaboratorEvents

\* the run reaches COMPLETE, BLOCKED or FAILED in this step
TerminalTransition == pc # "done" /\ pc' = "done"

\* C24: every run appends to the audit log an entry for each stage entry
\* and exit, approval checkpoints and the security gate included, and for
\* each terminal transition to COMPLETE, BLOCKED or FAILED: a step that
\* passes a checkpoint or ends the run appends an entry of the orchestrator.
C24_StageTransitionsAudited ==
    [][ (pc \in CheckpointPcs \/ TerminalTransition) => TransitionLogged
      ]_vars

\* C25: the audit log is append-only: whatever operation is made on the
\* store path, the log before it is a prefix of the log after it.
C25_AuditAppendOnly == [][IsPrefix(audit, audit')]_vars

\* the values of PipelineStage that end a run
TerminalStages == {"complete", "blocked", "failed"}

\* C26: a run is immutable once terminal: once its stage is COMPLETE,
\* BLOCKED or FAILED, its stage, success flag, error, outcomes, approvals
\* and deployment results never change again.
C26_TerminalRunImmutable ==
    [][ result.stage \in TerminalStages => result' = result ]_vars

\* C26 amended: a run whose stage is BLOCKED or FAILED, and a run that
\* FullCICDPipeline.run has returned, never changes again.
C26_ReturnedRunImmutable ==
    [][ (result.stage \in {"blocked", "failed"} \/ pc = "done") =>
            /\ result' = result
            /\ pc' = "done"
      ]_vars

C26_Witness ==
    /\ pc = "done"
    /\ result.stage = "blocked"
    /\ ~result.success
    /\ Len(deploy_to) = 2
    /\ result.deployment_results = EmptyMap
    /\ Deploys = <<>>

\* a call of rollback was made in this step
RollbackCalled ==
    /\ api_call'.seq = api_call.seq + 1
    /\ api_call'.op = "rollback"

\* the last line of the audit log is the rollback record of a call
RollbackLogged(log, environment, approved_by) ==
    /\ log # <<>>
    /\ log[Len(log)].event = "rollback"
    /\ log[Len(log)].environment = environment
    /\ log[Len(log)].approved_by = approved_by

\* C27: a rollback, for prod as for any environment, takes one approver
\* identity, is never refused for the number of approvers, creates no
\* approval request, hands the rollback to the agent once and appends a
\* rollback entry with the environment and the approver to the audit log.
C27_RollbackSingleApproval ==
    [][ RollbackCalled =>
            /\ Len(api_call'.approved_by) = 1
            /\ api_call'.performed
            /\ approvals_file' = approvals_file
            /\ Cardinality({i \in (Len(audit) + 1)..Len(audit') :
                              audit'[i].event = "agent_start"}) <= 1
            /\ Len(audit') > Len(audit)
            /\ RollbackLogged(audit', api_call'.environment,
                              api_call'.approved_by)
      ]_vars

\* the time one trigger_and_wait has been waiting
Waited == jenkins.now - jenkins.called

\* C28: with the clock advancing by the poll interval between polls, one
\* trigger_and_wait always ends: it returns the build info when the status
\* is neither RUNNING nor PENDING and raises TimeoutError only when the
\* elapsed time exceeds the timeout, and the time the whole call has waited
\* never exceeds the timeout by more than one poll interval.
C28_BuildWaitBounded ==
    /\ [](pc = "jenkins_done" =>
            \/ jenkins.status \in BuildStatus \ {"RUNNING", "PENDING"}
            \/ /\ jenkins.status = "TimeoutError"
               /\ jenkins.now - jenkins.start_time > jenkins.timeout)
    /\ [](Waited <= jenkins.timeout + jenkins.poll_interval_seconds)
    /\ <>(pc = "jenkins_done")

\* the decision markers, in upper case
Markers ==
    {"**BLOCK**", "DECISION: BLOCK", "**WARN**", "DECISION: WARN",
     "**APPROVE**", "DECISION: APPROVE"}

\* the markers of a decision that an output contains, in any case
MarkersIn(content) == {Upper(t) : t \in content} \cap Markers

ManualReview ==
    <<"Unable to determine security status - manual review required">>

\* C29: an output of the security collaborator that contains no decision
\* marker is classified WARN with the "manual review required" reason and
\* never APPROVE; every output is classified as one of BLOCK, WARN, APPROVE.
C29_UndecidableIsWarn ==
    pc = "parsed" =>
       /\ result.security_decision \in {"BLOCK", "WARN", "APPROVE"}
       /\ MarkersIn(result.cyber_result.content) = {} =>
             /\ result.security_decision = "WARN"
             /\ result.security_blockers = ManualReview

C29_Witness ==
    /\ pc = "parsed"
    /\ result.cyber_result.content = {"critical", "High"}
    /\ result.security_decision = "WARN"
    /\ result.security_blockers = ManualReview

\* C30: the list of blocking reasons is non-empty only when the decision is
\* BLOCK: for every output classified WARN or APPROVE the recorded list is
\* empty.
C30_BlockersOnlyWithBlock ==
    (pc = "parsed" /\ result.security_decision \in {"WARN", "APPROVE"}) =>
        result.security_blockers = <<>>

\* C30 amended: the recorded list is empty for every output classified
\* APPROVE and for every output classified WARN that contains a decision
\* marker; an output without a marker is WARN with the one reason "manual
\* review required".
C30_BlockersWithBlockOrUndecidable ==
    (pc = "parsed" /\ result.security_decision \in {"WARN", "APPROVE"}) =>
        result.security_blockers =
            IF MarkersIn(result.cyber_result.content) = {} THEN ManualReview
            ELSE <<>>

C30_Witness ==
    /\ pc = "parsed"
    /\ result.cyber_result.content = {"decision: warn", "critical", "High"}
    /\ result.security_decision = "WARN"
    /\ result.security_blockers = <<>>

\* the checkpoint named by the error of a rejected run
RejectedAt(prefix) ==
    CASE prefix = "Design rejected"             -> "design_approval"
      [] prefix = "Dev approval rejected"       -> "dev_approval"
      [] prefix = "Test approval rejected"      -> "test_approval"
      [] prefix = "Security review rejected"    -> "cyber_approval"
      [] prefix = "Staging deployment rejected" -> "deploy_staging_approval"
      [] prefix = "Production deployment rejected" -> "deploy_prod_approval"
      [] OTHER                                  -> "None"

\* the stage named by the error of a run whose collaborator failed
FailedAt(prefix) ==
    CASE prefix \in {"Design phase failed", "Design phase error"} -> "design"
      [] prefix \in {"Dev Agent failed", "Dev Agent error"}       -> "dev"
      [] prefix \in {"Test Agent failed", "Test Agent error"}     -> "test"
      [] prefix \in {"Cyber Agent failed", "Cyber Agent error"}   -> "cyber"
      [] prefix \in {"Build failed", "Build error"}               -> "build"
      [] prefix \in {"Artifact upload failed", "Artifact upload error"}
                                                     -> "artifact_upload"
      [] OTHER                                       -> "None"

Failure(kind, at) == [kind |-> kind, at |-> at]

\* what the stage and the error of a returned run say about its end
Classify(res) ==
    IF res.stage = "complete" /\ res.error = NoError
    THEN Failure("None", "None")
    ELSE IF res.stage = "blocked" /\ res.error.prefix = "Security gate blocked"
    THEN Failure("SecurityBlock", "cyber")
    ELSE IF RejectedAt(res.error.prefix) # "None"
    THEN Failure(IF res.error.detail # <<>> /\ res.error.detail[1] = "Errno"
                 THEN "GateUnavailable" ELSE "PolicyRejection",
                 RejectedAt(res.error.prefix))
    ELSE IF res.stage = "failed"
    THEN Failure("CollaboratorFailure", FailedAt(res.error.prefix))
    ELSE Failure("unknown", "None")

\* what ended the run in this step, told from the position of the run, the
\* request stored, the collaborator call made and the decision parsed
Occurred ==
    IF pc \in CheckpointPcs
    THEN IF ~DecisionStored
         THEN Failure("GateUnavailable",
                      IF pc = "deploy_prod_approval2"
                      THEN "deploy_prod_approval" ELSE pc)
         ELSE IF LastRequest(approvals_file').status = "rejected"
         THEN Failure("PolicyRejection",
                      IF pc = "deploy_prod_approval2"
                      THEN "deploy_prod_approval" ELSE pc)
         ELSE Failure("None", "None")
    ELSE IF pc \in DeployPcs \/ Len(calls') = Len(calls)
    THEN Failure("None", "None")
    ELSE IF calls'[Len(calls')].returned # "ok"
    THEN Failure("CollaboratorFailure", pc)
    ELSE IF pc = "cyber" /\ result'.security_decision = "BLOCK"
    THEN Failure("SecurityBlock", "cyber")
    ELSE Failure("None", "None")

\* the deploy calls of the run that failed
FailedDeploys == {i \in DOMAIN Deploys : Deploys[i].returned # "ok"}

\* C31: the terminal status and the error of a returned run tell which of
\* PolicyRejection, CollaboratorFailure, GateUnavailable, SecurityBlock and
\* DeploymentPartialFailure occurred and at which stage or environment; a
\* run in which a deployment failed does not return the status and error of
\* a full success.
C31_ErrorIdentifiesFailure ==
    [][ TerminalTransition =>
            /\ Classify(result') = Occurred
            /\ Classify(result') = Failure("None", "None") =>
                  {i \in DOMAIN calls' :
                      /\ calls'[i].collaborator = "deploy"
                      /\ calls'[i].returned # "ok"} = {}
      ]_vars

\* C31 amended: the terminal status and the error of a returned run tell
\* which of PolicyRejection, CollaboratorFailure, GateUnavailable and
\* SecurityBlock ended it and at which stage; a failed deployment changes
\* neither of them.
C31_ErrorIdentifiesRunFailure ==
    [][ /\ TerminalTransition => Classify(result') = Occurred
        /\ pc \in DeployPcs =>
              /\ result'.error = result.error
              /\ result'.success = result.success
              /\ result'.stage \notin {"failed", "blocked"}
      ]_vars

C31_Witness ==
    /\ pc = "done"
    /\ result.stage = "complete"
    /\ result.error = NoError
    /\ FailedDeploys # {}
    /\ \E k \in DOMAIN result.deployment_results :
          ~result.deployment_results[k]

\* no run is between the read and the write of a store operation
Quiescent ==
    \A r \in Runs : gates[r].pc \in {"idle", "requested", "resolved",
                                      "ValueError"}

\* C32: when the store operations of runs on different request ids
\* interleave at their read and write steps, then after the operations
\* have completed the file holds the request every run created, pending
\* or with the resolution that run stored, and no run failed to find its
\* own request.
C32_ConcurrentStoreKeepsEffects ==
    Quiescent =>
        \A r \in Runs :
            /\ gates[r].pc # "ValueError"
            /\ gates[r].pc = "requested" =>
                  /\ r \in DOMAIN approvals_file
                  /\ approvals_file[r].status = "pending"
            /\ gates[r].pc = "resolved" =>
                  /\ r \in DOMAIN approvals_file
                  /\ approvals_file[r].status = gates[r].status
                  /\ approvals_file[r].comments = gates[r].comments

\* the deployment records of the audit log for an environment
RecordsOf(environment) ==
    {i \in DOMAIN audit : /\ audit[i].event = "deployment"
                          /\ audit[i].environment = environment}

\* C33: whatever the list of targets, also one naming an environment more
\* than once, a run invokes the deploy collaborator at most once for an
\* environment and leaves at most one deployment record for it.
C33_OneDeploymentPerEnvironment ==
    \A environment \in {"dev", "staging", "prod"} :
        /\ Cardinality(DeploysTo(environment)) <= 1
        /\ Cardinality(RecordsOf(environment)) <= 1

\* what the build stage leaves in the run: the stage, the success flag, the
\* result of the CI/CD agent (the stage outcome) and the error
StageOutcome(res) ==
    <<res.stage, res.success, res.cicd_result.success,
      res.cicd_result.error, res.error>>

\* C34: from any state in which the build stage waits for Jenkins, a
\* timeout of the wait ends the run FAILED, and the stage outcome and
\* error it leaves differ from those of a build that completed with
\* FAILURE, UNSTABLE or ABORTED.
C34_TimeoutDistinctFromBuildFailure ==
    pc = "build" =>
        \A t \in WaitTimeouts, f \in FailingStatus :
            LET timed == BuildStage(CICDAgent_trigger_build("build", t))
                built == BuildStage(CICDAgent_trigger_build("build", f))
            IN /\ timed.pc = "done"
               /\ timed.result.stage = "failed"
               /\ ~timed.result.success
               /\ timed.result.error # NoError
               /\ timed.result.error # built.result.error
               /\ StageOutcome(timed.result) # StageOutcome(built.result)

C34_Witness ==
    /\ pc = "done"
    /\ result.stage = "failed"
    /\ result.error.prefix = "Build failed"
    /\ result.error.detail = <<TimeoutText("complete_timeout")>>
    /\ calls[Len(calls)].collaborator = "trigger_build"

\* a call of require_dual_approval has returned or has raised the
\* PermissionError of a rejection, and the store worked throughout
DualFinished ==
    /\ pc = "gate"
    /\ api_call.op = "require_dual_approval"
    /\ api_call.fault = "none"
    /\ api_call.raised \in {"none", "PermissionError"}

\* C35: when require_dual_approval finishes, by returning the two approvals
\* or by a rejection, no request it created is pending, also after a second
\* identity that repeats the first approver or is not on the allow-list.
C35_DualLeavesNoPending ==
    DualFinished =>
        \A i \in DOMAIN approvals_file : approvals_file[i].status # "pending"

\* C36: in the result a run returns, success is true exactly when the stage
\* is COMPLETE and false exactly when it is FAILED or BLOCKED, the error is
\* set exactly when success is false, and the stage is one of the three.
C36_ReturnedResultConsistent ==
    pc = "done" =>
        /\ result.stage \in {"complete", "failed", "blocked"}
        /\ result.success <=> result.stage = "complete"
        /\ ~result.success <=> result.stage \in {"failed", "blocked"}
        /\ result.error # NoError <=> ~result.success

C36_Witness ==
    /\ pc = "done"
    /\ result.stage = "complete"
    /\ result.success
    /\ result.error = NoError
    /\ FailedDeploys # {}
    /\ Len(result.approvals) > 0

\* the approved requests of the store, in the order they were created
ApprovedRequests(store) ==
    SelectSeq(store, LAMBDA request : request.status = "approved")

\* the actions of the checkpoints that precede the collaborator invoked at
\* a position of the run
CheckpointsBefore(at) ==
    LET warned == IF result.security_decision = "WARN"
                  THEN {"security_warning"} ELSE {}
    IN CASE at = "dev"  -> IF DesignRuns THEN {"design_approval"} ELSE {}
         [] at = "test"  -> {"code_changes"}
         [] at = "cyber" -> {"test_generation"}
         [] at \in {"build", "artifact_upload", "deploy_dev"} -> warned
         [] at = "deploy_staging" -> warned \cup {"deployment_staging"}
         [] at = "deploy_prod" ->
              warned \cup {"deployment_prod", "deployment_prod_secondary"}
         [] OTHER -> {}

\* C37: the approvals list of a run holds only approved requests, in the
\* order their checkpoints were passed, and only grows; a collaborator that
\* follows a checkpoint is invoked only when the record of that checkpoint
\* is already in the list; without require_approvals the list stays empty
\* through all stages, the deployments included.
C37_ApprovalsRecorded ==
    [][ /\ IsPrefix(result.approvals, result'.approvals)
        /\ IsPrefix(result'.approvals, ApprovedRequests(approvals_file'))
        /\ ~require_approvals => result'.approvals = <<>>
        /\ (require_approvals /\ Len(calls') > Len(calls)) =>
              \A action \in CheckpointsBefore(pc) :
                 \E i \in DOMAIN result.approvals :
                    /\ result.approvals[i].action = action
                    /\ result.approvals[i].status = "approved"
      ]_vars

C37_Witness ==
    /\ pc = "done"
    /\ require_approvals
    /\ Len(result.approvals) = 6
    /\ result.approvals[5].action = "deployment_prod"
    /\ result.approvals[6].action = "deployment_prod_secondary"
    /\ \E i \in DOMAIN approvals_file : approvals_file[i].status = "pending"
    /\ Deploys # <<>>

\* C38: whatever the task type, the list of environment names, the
\* outcomes of the collaborators and the decisions given, a run whose
\* approval store works does not end by an uncaught error: a run ends
\* that way only in a checkpoint step in which the store failed, so not
\* with an earlier deployment performed and the stage left non-terminal.
C38_RunEndsByReturning ==
    [][ pc' = "crashed" =>
            /\ pc \in CheckpointPcs
            /\ ~DecisionStored
      ]_vars

\* the run reports in this step that a decision of the dual approval was
\* negative
DualRejected(at, which) ==
    /\ pc = at
    /\ result'.error.detail # <<>>
    /\ result'.error.detail[1] = which

\* the checkpoint is aborted: the run returns FAILED, no approval is
\* recorded in the result and no collaborator is invoked
CheckpointAborted ==
    /\ pc' = "done"
    /\ result'.stage = "failed"
    /\ result'.approvals = result.approvals
    /\ calls' = calls

\* C39: in the dual approval of a prod deployment, a negative first
\* decision creates one request, leaves it rejected and creates no
\* secondary request; a negative second decision leaves the first request
\* approved in the store and the secondary one rejected; in both cases the
\* run returns FAILED without a prod deployment.
C39_DualRejection ==
    [][ /\ DualRejected("deploy_prod_approval", "First approval rejected") =>
              /\ Len(approvals_file') = Len(approvals_file) + 1
              /\ SubSeq(approvals_file', 1, Len(approvals_file))
                    = approvals_file
              /\ LastRequest(approvals_file').action = "deployment_prod"
              /\ LastRequest(approvals_file').status = "rejected"
              /\ CheckpointAborted
        /\ DualRejected("deploy_prod_approval2", "Second approval rejected") =>
              /\ request1.action = "deployment_prod"
              /\ request1.status = "approved"
              /\ request1.request_id \in DOMAIN approvals_file'
              /\ approvals_file'[request1.request_id] = request1
              /\ Len(approvals_file') = Len(approvals_file) + 1
              /\ LastRequest(approvals_file').action
                    = "deployment_prod_secondary"
              /\ LastRequest(approvals_file').status = "rejected"
              /\ CheckpointAborted
      ]_vars

C39_Witness ==
    /\ pc = "done"
    /\ result.stage = "failed"
    /\ result.error.detail # <<>>
    /\ result.error.detail[1] = "Second approval rejected"
    /\ ApprovedFor("deployment_prod") # {}
    /\ LastRequest(approvals_file).action = "deployment_prod_secondary"
    /\ LastRequest(approvals_file).status = "rejected"
    /\ DeploysTo("prod") = {}

\* a run that ended with the first decision negative
C39_FirstRejected ==
    /\ pc = "done"
    /\ result.error.detail # <<>>
    /\ result.error.detail[1] = "First approval rejected"
    /\ RequestsFor("deployment_prod_secondary") = {}

BlockMarkers == {"**BLOCK**", "DECISION: BLOCK"}

WarnMarkers == {"**WARN**", "DECISION: WARN"}

\* C40: an output with a BLOCK marker is classified BLOCK whatever other
\* markers it has; an output with a WARN marker and no BLOCK marker is
\* classified WARN also when it has an APPROVE marker; APPROVE is the
\* classification only of outputs with neither a BLOCK nor a WARN marker.
C40_DecisionPrecedence ==
    pc = "parsed" =>
        LET found == MarkersIn(result.cyber_result.content) IN
        /\ found \cap BlockMarkers # {} => result.security_decision = "BLOCK"
        /\ (found \cap WarnMarkers # {} /\ found \cap BlockMarkers = {}) =>
              result.security_decision = "WARN"
        /\ result.security_decision = "APPROVE" =>
              found \cap (BlockMarkers \cup WarnMarkers) = {}

C40_Witness ==
    /\ pc = "parsed"
    /\ {"**block**", "decision: warn", "DECISION: APPROVE"}
          \subseteq result.cyber_result.content
    /\ result.security_decision = "BLOCK"

\* an output with a WARN and an APPROVE marker classified WARN
C40_WarnOverApprove ==
    /\ pc = "parsed"
    /\ MarkersIn(result.cyber_result.content)
          = {"**WARN**", "**APPROVE**"}
    /\ result.security_decision = "WARN"

====
